---- MODULE Spec2Model ----
(***************************************************************************)
(* A model of the InstruNet AI inference pipeline: the two segmenters      *)
(* (pipeline.segment_audio, utils.segmentation.sliding_windows), the       *)
(* frame fixing of the feature tensors, predict_segments and               *)
(* smooth_predictions.                                                     *)
(*                                                                         *)
(* Data representation                                                     *)
(*   - a one-dimensional numpy array of samples is a run-length encoded    *)
(*     sequence of records [v |-> sample, n |-> repetitions], kept         *)
(*     canonical (no empty run, no two neighbouring runs of one value), so *)
(*     that two arrays are equal exactly when their encodings are equal;   *)
(*   - a Python float that the code obtains by a division is the reduced   *)
(*     fraction [num, den];                                                *)
(*   - a duration in seconds is such a fraction as well.                   *)
(***************************************************************************)
EXTENDS Integers, Sequences, FiniteSets, TLC

VARIABLES
    pc,               \* the running function and the position in it
    fn,               \* the function that was called from outside
    audio,            \* the decoded waveform (y / audio in the source)
    sr,               \* sample rate
    window_sec,       \* segment_duration / window_sec
    hop_sec,          \* hop_duration / hop_sec
    window_samples,   \* segment_samples / window_samples
    hop_samples,
    start,            \* loop variable of the segmenters
    segments,
    times,
    mel,              \* a spectrogram as extracted (mel / mel_spec_db)
    mel_out,          \* the spectrogram with its frames fixed
    model,            \* the classifier
    seg_i,            \* predict_segments: segments taken from the list
    pred_list,        \* predict_segments: the list predictions
    model_calls,      \* the inputs model.predict was called with, in order
    predictions,      \* the prediction matrix (a numpy array)
    smoothing,        \* run_inference: smoothing
    window_size,      \* smooth_predictions: window_size
    smoothed,         \* smooth_predictions: smoothed / the value returned
    smoothed_is,      \* smooth_predictions: the object smoothed is
    row_i,            \* smooth_predictions: i
    aggregation,      \* run_inference: aggregation
    threshold,        \* run_inference: threshold
    audio_name,       \* run_inference: audio_name
    audio_path,       \* run_inference: audio_path
    agg_predictions,  \* aggregate_predictions: predictions
    method,           \* aggregate_predictions: method
    aggregated,       \* run_inference: aggregated
    tl_i,             \* run_inference: i of the timeline loop
    timeline,         \* run_inference: timeline
    json_output,      \* run_inference: json_output
    result,           \* what run_inference returned
    model_exists,     \* main_app: os.path.exists(model_path)
    results,          \* main_app: st.session_state.results
    shown,            \* main_app: what st.error / st.success displayed
    json_str,         \* main_app: json_str
    parsed,           \* json.loads(json_str)
    temp_files,       \* main_app: how many temporary files exist
    model_loads,      \* main_app: load_model(model_path) returns a model
    class_names,      \* config: the list CLASS_NAMES is bound to
    classes_is,       \* run_inference: the object json_output["classes"] is
    authenticated,    \* st.session_state.authenticated
    login_success,    \* st.session_state.login_success
    user,             \* st.session_state.user
    audio_data,       \* st.session_state.audio_data
    visualizations,   \* st.session_state.visualizations (its keys)
    pdf               \* main_app: what generate_pdf_report was given

segVars == <<audio, sr, window_sec, hop_sec, window_samples, hop_samples,
             start, segments, times>>

frameVars == <<mel, mel_out>>

predVars == <<model, seg_i, pred_list, model_calls>>

smoothVars == <<window_size, smoothed, smoothed_is, row_i>>

runArgs == <<aggregation, threshold, smoothing, audio_name, audio_path>>

aggVars == <<agg_predictions, method, aggregated>>

outVars == <<tl_i, timeline, json_output, result>>

appVars == <<model_exists, results, shown>>

jsonVars == <<json_str, parsed>>

fileVars == <<temp_files, model_loads>>

objVars == <<class_names, classes_is>>

sessionVars == <<authenticated, login_success, user, audio_data,
                 visualizations, pdf>>

extraVars == <<fileVars, objVars, sessionVars>>

laterVars == <<aggVars, outVars, appVars, jsonVars, extraVars>>

vars == <<pc, fn, segVars, frameVars, predVars, predictions, runArgs,
          smoothVars, laterVars>>

\* What the segmenters leave alone.
notSeg == <<frameVars, predVars, predictions, runArgs, smoothVars, laterVars>>

\* What the frame fixing leaves alone.
notFrames == <<segVars, predVars, predictions, runArgs, smoothVars, laterVars>>

(***************************************************************************)
(* Bounds of the model.                                                    *)
(***************************************************************************)
MaxLen == 5
MaxSr == 2
MaxHalfSec == 4
MaxMels == 2
MaxExtraFrames == 3
MaxPattern == 2
MaxRows == 3
MaxClasses == 2
MaxWindow == 4
MaxBlocks == 3
MaxModels == 2

Samples == {0, 1}

(***************************************************************************)
(* config.py                                                               *)
(***************************************************************************)
TARGET_SR == 22050
N_MELS == 128
HOP_LENGTH == 512
TARGET_FRAMES == 126

(***************************************************************************)
(* Arithmetic helpers.                                                     *)
(***************************************************************************)
Max(a, b) == IF a >= b THEN a ELSE b

Min(a, b) == IF a <= b THEN a ELSE b

RECURSIVE GCD(_, _)
GCD(a, b) == IF b = 0 THEN a ELSE GCD(b, a % b)

\* The float n / d (n >= 0, d > 0) as a reduced fraction.
Rat(n, d) ==
    LET g == GCD(n, d)
    IN  [num |-> n \div g, den |-> d \div g]

RatLess(p, q) == p.num * q.den < q.num * p.den

RatLeq(p, q) == p.num * q.den <= q.num * p.den

\* ceil(a / b) for a >= 0, b >= 1.
CeilDiv(a, b) == (a + b - 1) \div b

(***************************************************************************)
(* float32 numbers that are not negative: m * 2^e with 2^23 <= m < 2^24,   *)
(* or zero.  An operation rounds its exact result to the nearest such      *)
(* number, a tie to the even m (IEEE 754 round-to-nearest-even).  The      *)
(* values in play are probabilities and their sums, far from overflow and  *)
(* from the subnormal range.                                               *)
(***************************************************************************)
RECURSIVE Pow2(_)
Pow2(n) == IF n <= 0 THEN 1 ELSE 2 * Pow2(n - 1)

\* The number of binary digits of x >= 0.
RECURSIVE BitLen(_)
BitLen(x) == IF x = 0 THEN 0 ELSE 1 + BitLen(x \div 2)

F32Zero == [m |-> 0, e |-> 0]

\* x * 2^e rounded to float32; sticky says that the exact value is larger
\* than x * 2^e by less than 2^e.
F32Round(x, e, sticky) ==
    IF x = 0 THEN F32Zero
    ELSE IF BitLen(x) <= 24
         THEN [m |-> x * Pow2(24 - BitLen(x)), e |-> e - (24 - BitLen(x))]
         ELSE LET sh == BitLen(x) - 24
                  q == x \div Pow2(sh)
                  r == x % Pow2(sh)
                  half == Pow2(sh - 1)
                  up == \/ r > half
                        \/ r = half /\ (sticky \/ q % 2 = 1)
                  qq == IF up THEN q + 1 ELSE q
              IN  IF qq = Pow2(24)
                  THEN [m |-> Pow2(23), e |-> e + sh + 1]
                  ELSE [m |-> qq, e |-> e + sh]

\* a + b in float32.
F32Add(a, b) ==
    IF a.m = 0 THEN b
    ELSE IF b.m = 0 THEN a
    ELSE LET hi == IF a.e >= b.e THEN a ELSE b
             lo == IF a.e >= b.e THEN b ELSE a
             d == hi.e - lo.e
             low == IF d >= 28 THEN 0 ELSE (lo.m * 8) \div Pow2(d)
             lost == IF d >= 28 THEN TRUE ELSE (lo.m * 8) % Pow2(d) # 0
         IN  F32Round(hi.m * 8 + low, hi.e - 3, lost)

\* a / k in float32, for an integer 1 <= k < 32.
F32DivInt(a, k) ==
    IF a.m = 0 THEN F32Zero
    ELSE F32Round((a.m * 128) \div k, a.e - 7, (a.m * 128) % k # 0)

F32Less(a, b) ==
    IF b.m = 0 THEN FALSE
    ELSE IF a.m = 0 THEN TRUE
    ELSE a.e < b.e \/ (a.e = b.e /\ a.m < b.m)

F32Leq(a, b) == a = b \/ F32Less(a, b)

\* The float32 numbers 0.5, 1.0 and the ones nearest to 0.85 and 0.9.
\* The place of a float32 among the nonnegative float32 values in increasing
\* order (its bit pattern): neighbours differ by one.
F32Ord(a) == IF a.m = 0 THEN 0 ELSE (a.e + 150) * 8388608 + (a.m - 8388608)

F32Half == [m |-> 8388608, e |-> -24]

F32Quarter == [m |-> 8388608, e |-> -25]

\* The float32 of a threshold that is 0, 0.25, 0.5 or 1 (1 for any above).
F32OfStop(thr) ==
    IF thr.num <= 0 THEN [m |-> 0, e |-> 0]
    ELSE IF thr.num >= thr.den THEN [m |-> 8388608, e |-> -23]
    ELSE IF 4 * thr.num = thr.den THEN F32Quarter
    ELSE F32Half

F32One == [m |-> 8388608, e |-> -23]

F32Near085 == [m |-> 14260634, e |-> -24]

F32Near09 == [m |-> 15099494, e |-> -24]

(***************************************************************************)
(* numpy arrays of samples, run-length encoded.                            *)
(***************************************************************************)
RECURSIVE ALen(_)
ALen(a) == IF a = <<>> THEN 0 ELSE Head(a).n + ALen(Tail(a))

AFill(v, k) == IF k <= 0 THEN <<>> ELSE <<[v |-> v, n |-> k]>>

AConcat(a, b) ==
    IF a = <<>> THEN b
    ELSE IF b = <<>> THEN a
    ELSE IF a[Len(a)].v = b[1].v
         THEN SubSeq(a, 1, Len(a) - 1)
              \o <<[v |-> b[1].v, n |-> a[Len(a)].n + b[1].n]>>
              \o Tail(b)
         ELSE a \o b

RECURSIVE ADrop(_, _)
ADrop(a, k) ==
    IF k <= 0 \/ a = <<>> THEN a
    ELSE IF Head(a).n <= k THEN ADrop(Tail(a), k - Head(a).n)
    ELSE <<[v |-> Head(a).v, n |-> Head(a).n - k]>> \o Tail(a)

RECURSIVE ATake(_, _)
ATake(a, k) ==
    IF k <= 0 \/ a = <<>> THEN <<>>
    ELSE IF Head(a).n >= k THEN <<[v |-> Head(a).v, n |-> k]>>
    ELSE <<Head(a)>> \o ATake(Tail(a), k - Head(a).n)

\* a[lo:hi] for 0 <= lo: the slice is cut at the end of the array.
ASlice(a, lo, hi) == ATake(ADrop(a, lo), hi - lo)

\* np.pad(a, (0, k), mode='constant')
APadRight(a, k) == AConcat(a, AFill(0, k))

\* a[i], i counted from 0.
RECURSIVE AAt(_, _)
AAt(a, i) == IF i < Head(a).n THEN Head(a).v ELSE AAt(Tail(a), i - Head(a).n)

RECURSIVE AFromSeq(_)
AFromSeq(s) ==
    IF s = <<>> THEN <<>> ELSE AConcat(AFill(Head(s), 1), AFromSeq(Tail(s)))

SeqsUpTo(S, n) == UNION {[1..k -> S] : k \in 0..n}

Durations == {Rat(k, 2) : k \in 1..MaxHalfSec}

\* int(seconds * sr): the product is exact for the durations used, and int()
\* cuts the fraction.
ToSamples(seconds, rate) == (seconds.num * rate) \div seconds.den

SEGMENT_DURATION == Rat(3, 1)

HOP_DURATION == Rat(3, 2)

(***************************************************************************)
(* pipeline.segment_audio                                                  *)
(***************************************************************************)
\* Variant of segment_audio_pad that pads on the left.
segment_audio_pad_left(y, s, end) ==
    AConcat(AFill(0, end - ALen(y)), ASlice(y, s, ALen(y)))

segment_audio_pad(y, s, end) ==
    APadRight(ASlice(y, s, ALen(y)), end - ALen(y))

segment_audio_segment(y, s, segment_samples) ==
    LET end == s + segment_samples
    IN  IF end > ALen(y)
        THEN segment_audio_pad(y, s, end)
        ELSE ASlice(y, s, end)

segment_audio_time(s, rate) == Rat(s, rate)

\* Variant of segment_audio_break that goes on when the window ends exactly
\* at the end of the waveform.
segment_audio_break_strict(end, n) == end > n

segment_audio_break(end, n) == end >= n

segment_audio_begin ==
    /\ pc = "segment_audio.call"
    /\ window_samples' = ToSamples(window_sec, sr)
    /\ hop_samples' = ToSamples(hop_sec, sr)
    /\ segments' = <<>>
    /\ times' = <<>>
    /\ start' = 0
       \* range(0, len(y), 0) raises ValueError
    /\ pc' = IF ToSamples(hop_sec, sr) = 0 THEN "error" ELSE "segment_audio.loop"
    /\ UNCHANGED <<fn, audio, sr, window_sec, hop_sec, notSeg>>

segment_audio_iter ==
    /\ pc = "segment_audio.loop"
    /\ start < ALen(audio)
    /\ segments' = Append(segments,
                          segment_audio_segment(audio, start, window_samples))
    /\ times' = Append(times, segment_audio_time(start, sr))
    /\ IF segment_audio_break(start + window_samples, ALen(audio))
       THEN pc' = "segment_audio.return" /\ start' = start
       ELSE pc' = "segment_audio.loop" /\ start' = start + hop_samples
    /\ UNCHANGED <<fn, audio, sr, window_sec, hop_sec, window_samples,
                   hop_samples, notSeg>>

segment_audio_exhausted ==
    /\ pc = "segment_audio.loop"
    /\ start >= ALen(audio)
    /\ pc' = "segment_audio.return"
    /\ UNCHANGED <<fn, segVars, notSeg>>

(***************************************************************************)
(* utils.segmentation.sliding_windows                                      *)
(***************************************************************************)
sliding_windows_pad(a, s, end) ==
    APadRight(ASlice(a, s, ALen(a)), end - ALen(a))

sliding_windows_segment(a, s, w) ==
    LET end == s + w
    IN  IF end > ALen(a)
        THEN sliding_windows_pad(a, s, end)
        ELSE ASlice(a, s, end)

\* Variant of sliding_windows_time that leaves the start in samples.
sliding_windows_time_samples(s, rate) == Rat(s, 1)

sliding_windows_time(s, rate) == Rat(s, rate)

sliding_windows_break(end, n) == end >= n

sliding_windows_begin ==
    /\ pc = "sliding_windows.call"
    /\ window_samples' = ToSamples(window_sec, sr)
    /\ hop_samples' = ToSamples(hop_sec, sr)
    /\ segments' = <<>>
    /\ times' = <<>>
    /\ start' = 0
    /\ pc' = IF ToSamples(hop_sec, sr) = 0 THEN "error" ELSE "sliding_windows.loop"
    /\ UNCHANGED <<fn, audio, sr, window_sec, hop_sec, notSeg>>

sliding_windows_iter ==
    /\ pc = "sliding_windows.loop"
    /\ start < ALen(audio)
    /\ segments' = Append(segments,
                          sliding_windows_segment(audio, start, window_samples))
    /\ times' = Append(times, sliding_windows_time(start, sr))
    /\ IF sliding_windows_break(start + window_samples, ALen(audio))
       THEN pc' = "sliding_windows.return" /\ start' = start
       ELSE pc' = "sliding_windows.loop" /\ start' = start + hop_samples
    /\ UNCHANGED <<fn, audio, sr, window_sec, hop_sec, window_samples,
                   hop_samples, notSeg>>

sliding_windows_exhausted ==
    /\ pc = "sliding_windows.loop"
    /\ start >= ALen(audio)
    /\ pc' = "sliding_windows.return"
    /\ UNCHANGED <<fn, segVars, notSeg>>

(***************************************************************************)
(* Two-dimensional numpy arrays: an array of rows, each row an array.      *)
(***************************************************************************)
MRows(m) == ALen(m)

\* m.shape[1]
MCols(m) == IF m = <<>> THEN 0 ELSE ALen(m[1].v)

\* m[b, j], both counted from 0.
MAt(m, b, j) == AAt(AAt(m, b), j)

\* np.pad(m, ((0, 0), (0, k)), mode='constant')
RECURSIVE MPadCols(_, _)
MPadCols(m, k) ==
    IF m = <<>> THEN <<>>
    ELSE AConcat(<<[v |-> APadRight(Head(m).v, k), n |-> Head(m).n]>>,
                 MPadCols(Tail(m), k))

\* np.pad(m, ((0, 0), (k, 0)), mode='constant')
RECURSIVE MPadColsLeading(_, _)
MPadColsLeading(m, k) ==
    IF m = <<>> THEN <<>>
    ELSE AConcat(<<[v |-> AConcat(AFill(0, k), Head(m).v), n |-> Head(m).n]>>,
                 MPadColsLeading(Tail(m), k))

\* m[:, :t]
RECURSIVE MTakeCols(_, _)
MTakeCols(m, t) ==
    IF m = <<>> THEN <<>>
    ELSE AConcat(<<[v |-> ASlice(Head(m).v, 0, t), n |-> Head(m).n]>>,
                 MTakeCols(Tail(m), t))

(***************************************************************************)
(* The fixing of the frame axis: pipeline.predict_segments (lines 71-78)   *)
(* and utils.features.fix_mel_frames.                                      *)
(***************************************************************************)
\* Variant of predict_segments_pad that pads on the leading edge.
predict_segments_pad_leading(m, pad_width) == MPadColsLeading(m, pad_width)

predict_segments_pad(m, pad_width) == MPadCols(m, pad_width)

predict_segments_fix_shape(m) ==
    IF MCols(m) < TARGET_FRAMES
    THEN predict_segments_pad(m, TARGET_FRAMES - MCols(m))
    ELSE IF MCols(m) > TARGET_FRAMES
         THEN MTakeCols(m, TARGET_FRAMES)
         ELSE m

\* int(np.ceil(SEGMENT_DURATION * sr / HOP_LENGTH))
fix_mel_frames_target(rate) ==
    CeilDiv(SEGMENT_DURATION.num * rate, SEGMENT_DURATION.den * HOP_LENGTH)

fix_mel_frames(m, rate) ==
    LET target == fix_mel_frames_target(rate)
        padded == IF MCols(m) < target
                  THEN MPadCols(m, target - MCols(m))
                  ELSE m
    IN  MTakeCols(padded, target)

predict_segments_fix_call ==
    /\ pc = "predict_segments_fix_shape.call"
    /\ mel_out' = predict_segments_fix_shape(mel)
    /\ pc' = "predict_segments_fix_shape.return"
    /\ UNCHANGED <<fn, mel, notFrames>>

fix_mel_frames_call ==
    /\ pc = "fix_mel_frames.call"
    /\ mel_out' = fix_mel_frames(mel, sr)
    /\ pc' = "fix_mel_frames.return"
    /\ UNCHANGED <<fn, mel, notFrames>>

(***************************************************************************)
(* pipeline.predict_segments                                               *)
(***************************************************************************)
CLASS_NAMES ==
    <<"cel", "cla", "flu", "gac", "gel", "org", "pia", "sax", "tru", "vio",
      "voi">>

\* The samples of a that stand at the multiples of h, a starting at the
\* index off.
RECURSIVE Decimate(_, _, _)
Decimate(a, off, h) ==
    IF a = <<>> THEN <<>>
    ELSE AConcat(AFill(Head(a).v,
                       CeilDiv(off + Head(a).n, h) - CeilDiv(off, h)),
                 Decimate(Tail(a), off + Head(a).n, h))

Twice(row) == [k \in 1..Len(row) |-> [v |-> 2 * row[k].v, n |-> row[k].n]]

RECURSIVE ASum(_)
ASum(a) == IF a = <<>> THEN 0 ELSE Head(a).v * Head(a).n + ASum(Tail(a))

\* The sum and the set of the entries of a two-dimensional array.
RECURSIVE MSum(_)
MSum(m) == IF m = <<>> THEN 0 ELSE Head(m).n * ASum(Head(m).v) + MSum(Tail(m))

MValues(m) ==
    UNION {{m[b].v[k].v : k \in DOMAIN m[b].v} : b \in DOMAIN m}

\* The array with the entry f[x] wherever m holds x.
RECURSIVE ARemap(_, _)
ARemap(a, f) ==
    IF a = <<>> THEN <<>>
    ELSE AConcat(AFill(f[Head(a).v], Head(a).n), ARemap(Tail(a), f))

RECURSIVE MRemap(_, _)
MRemap(m, f) ==
    IF m = <<>> THEN <<>>
    ELSE AConcat(<<[v |-> ARemap(Head(m).v, f), n |-> Head(m).n]>>,
                 MRemap(Tail(m), f))

\* Stand-in for librosa.feature.melspectrogram (lines 63-65): a power array
\* of shape (n_mels, 1 + len(segment) // hop_length) that the samples
\* determine.  The frame t holds the sample in its centre, t * hop_length
\* (the last sample for a centre at the end), in the lower bands and twice
\* that in the upper.  Silence has no power in any band.
predict_segments_mel_spec(segment, hop_length, n_mels) ==
    LET ext == AConcat(segment, AFill(segment[Len(segment)].v, 1))
        row == Decimate(ext, 0, hop_length)
    IN  AConcat(AFill(row, n_mels \div 2),
                AFill(Twice(row), n_mels - n_mels \div 2))

\* 10 * log10(max(1e-10, p)) in whole decibels, for the powers 0, 1 and 2.
PowerDecibels(p) == IF p <= 0 THEN -100 ELSE IF p = 1 THEN 0 ELSE 3

\* librosa.power_to_db(S, ref=np.max) with its defaults amin = 1e-10 and
\* top_db = 80: decibels below the largest power, cut 80 below the largest.
power_to_db(S) ==
    LET ref == PowerDecibels(CHOOSE x \in MValues(S) :
                                 \A y \in MValues(S) : y <= x)
    IN  MRemap(S, [p \in MValues(S) |->
                      Max(PowerDecibels(p) - ref, 0 - 80)])

\* The entry 0 / 0 of a standardised array.
NaNEntry == -9999999

\* The epsilon of line 69, 1e-6, and a variant without it.
predict_segments_eps_zero == Rat(0, 1)

predict_segments_eps == Rat(1, 1000000)

\* EPS of config.py, 1e-8.
EPS == Rat(1, 100000000)

\* mel_db.std() + eps: the standard deviation is zero exactly when all the
\* entries are equal; the sum is zero exactly when both terms are.
Divisor(mel_db, eps) ==
    [std_is_zero |-> Cardinality(MValues(mel_db)) = 1, eps |-> eps]

DivisorIsZero(d) == d.std_is_zero /\ d.eps.num = 0

\* (mel_db - mel_db.mean()) / (mel_db.std() + eps).  The entries are kept in
\* units of the divisor over the size of the array, so an entry x becomes
\* size * x - sum; all of them are 0 when the deviation is zero and the
\* divisor is not, and a zero divisor leaves 0 / 0 in every entry (numpy
\* warns and goes on).
Standardise(mel_db, eps) ==
    LET size == MRows(mel_db) * MCols(mel_db)
        sum == MSum(mel_db)
        d == Divisor(mel_db, eps)
    IN  MRemap(mel_db, [x \in MValues(mel_db) |->
                           IF DivisorIsZero(d) THEN NaNEntry
                           ELSE size * x - sum])

\* Lines 63-69: the spectrogram, its decibels and their standardisation.
predict_segments_mel_spec_db(segment, hop_length, n_mels) ==
    Standardise(power_to_db(predict_segments_mel_spec(segment, hop_length,
                                                      n_mels)),
                predict_segments_eps)

\* utils.features.generate_log_mel
generate_log_mel(y, rate) ==
    Standardise(power_to_db(predict_segments_mel_spec(y, 512, N_MELS)), EPS)

\* The probabilities a stand-in classifier answers with.
ProbSeq == <<F32Zero, F32Half, F32Near09, F32One>>

\* model.predict(input_data, verbose=0)[0]: the classifier is any function
\* from an input tensor to one probability for each class; the classifier
\* number mdl of the model answers by the sum of the lowest band.
ModelPredict(mdl, x) ==
    [j \in 1..Len(CLASS_NAMES) |->
        ProbSeq[((((ASum(AAt(x, 0)) % 11) \div 2) + j * mdl) % Len(ProbSeq)) + 1]]

\* np.array(rows): a list of rows as an array.  The array of an empty list
\* has the shape (0,).
NpArray(rows) ==
    IF rows = <<>>
    THEN [shape |-> <<0>>, data |-> <<>>]
    ELSE [shape |-> <<Len(rows), Len(rows[1])>>, data |-> rows]

\* No array: the value of a name that is not bound.
NoValue == [shape |-> <<>>, data |-> <<>>]

\* run_inference has not returned.
NoResult == [returned |-> FALSE]

\* Variant of predict_segments_append that puts the row in front.
predict_segments_prepend(list, pred) == <<pred>> \o list

predict_segments_append(list, pred) == Append(list, pred)

predict_segments_begin ==
    /\ pc = "predict_segments.call"
    /\ pred_list' = <<>>
    /\ seg_i' = 0
    /\ pc' = "predict_segments.loop"
    /\ UNCHANGED <<fn, segVars, frameVars, model, model_calls, predictions,
                   runArgs, laterVars, smoothVars>>

predict_segments_iter ==
    /\ pc = "predict_segments.loop"
    /\ seg_i < Len(segments)
    /\ LET segment == segments[seg_i + 1]
           mel_spec_db == predict_segments_mel_spec_db(segment, HOP_LENGTH,
                                                       N_MELS)
           input_data == predict_segments_fix_shape(mel_spec_db)
           pred == ModelPredict(model, input_data)
       IN  /\ mel' = mel_spec_db
           /\ mel_out' = input_data
           /\ model_calls' = Append(model_calls, input_data)
           /\ pred_list' = predict_segments_append(pred_list, pred)
    /\ seg_i' = seg_i + 1
    /\ UNCHANGED <<pc, fn, segVars, model, predictions, runArgs, laterVars,
                   smoothVars>>

predict_segments_return ==
    /\ pc = "predict_segments.loop"
    /\ seg_i >= Len(segments)
    /\ predictions' = NpArray(pred_list)
    /\ pc' = "predict_segments.return"
    /\ UNCHANGED <<fn, segVars, frameVars, predVars, runArgs, laterVars,
                   smoothVars>>

(***************************************************************************)
(* pipeline.smooth_predictions                                             *)
(***************************************************************************)
\* The float32 sum of column j of rows[lo + 1 .. hi], added row by row.
RECURSIVE F32ColSum(_, _, _, _)
F32ColSum(rows, j, lo, hi) ==
    IF hi = lo + 1 THEN rows[hi][j]
    ELSE F32Add(F32ColSum(rows, j, lo, hi - 1), rows[hi][j])

\* Variant of smooth_predictions_mean that adds and does not divide.
smooth_predictions_sum(rows, lo, hi) ==
    [j \in 1..Len(rows[1]) |-> F32ColSum(rows, j, lo, hi)]

\* predictions[start:end].mean(axis=0), where start < end
smooth_predictions_mean(rows, lo, hi) ==
    [j \in 1..Len(rows[1]) |-> F32DivInt(F32ColSum(rows, j, lo, hi), hi - lo)]

smooth_predictions_start(i, w) == Max(0, i - w \div 2)

\* Variant of smooth_predictions_end whose window holds w rows: an even
\* window loses the last row of the next odd one.
smooth_predictions_end_exact(i, w, n) == Min(n, i + (w - 1) \div 2 + 1)

\* Variant of smooth_predictions_end that leaves out the + 1.
smooth_predictions_end_short(i, w, n) == Min(n, i + w \div 2)

smooth_predictions_end(i, w, n) == Min(n, i + w \div 2 + 1)

\* Variant of smooth_predictions_unsmoothed that returns an array of zeros
\* of the same shape.
smooth_predictions_zeros(p) ==
    [shape |-> p.shape,
     data |-> [i \in 1..Len(p.data) |->
                 [j \in 1..Len(p.data[i]) |-> F32Zero]]]

\* What the function returns for window_size <= 1.
smooth_predictions_unsmoothed(p) == p

\* Variant of np_copy that gives the array itself.
np_copy_same(object) == object

\* The object np.copy returns: a new array, not the one it is given.
np_copy(object) == "a copy"

\* smoothed_is names the object the name smoothed is bound to: the array
\* the caller passed as predictions, or a copy of it.
smooth_predictions_call ==
    /\ pc = "smooth_predictions.call"
    /\ IF window_size <= 1
       THEN /\ smoothed' = smooth_predictions_unsmoothed(predictions)
            /\ smoothed_is' = "predictions"
            /\ pc' = "smooth_predictions.return"
       ELSE /\ smoothed' = predictions
            /\ smoothed_is' = np_copy("predictions")
               \* n_segments, n_classes = predictions.shape
            /\ pc' = IF Len(predictions.shape) # 2
                     THEN "error"
                     ELSE "smooth_predictions.loop"
    /\ row_i' = 0
    /\ UNCHANGED <<fn, segVars, frameVars, predVars, predictions, runArgs,
                   laterVars, window_size>>

smooth_predictions_row ==
    /\ pc = "smooth_predictions.loop"
    /\ row_i < predictions.shape[1]
    /\ LET n_segments == predictions.shape[1]
           lo == smooth_predictions_start(row_i, window_size)
           hi == smooth_predictions_end(row_i, window_size, n_segments)
       IN  smoothed' =
             [smoothed EXCEPT
                !.data[row_i + 1] =
                    smooth_predictions_mean(predictions.data, lo, hi)]
    \* A write to the array the caller passed is a write to predictions.
    /\ predictions' = IF smoothed_is = "predictions"
                      THEN smoothed'
                      ELSE predictions
    /\ row_i' = row_i + 1
    /\ UNCHANGED <<pc, fn, segVars, frameVars, predVars, runArgs, laterVars,
                   window_size, smoothed_is>>

smooth_predictions_return ==
    /\ pc = "smooth_predictions.loop"
    /\ row_i >= predictions.shape[1]
    /\ pc' = "smooth_predictions.return"
    /\ UNCHANGED <<fn, segVars, frameVars, predVars, predictions, runArgs,
                   laterVars, smoothVars>>

(***************************************************************************)
(* pipeline.aggregate_predictions                                          *)
(***************************************************************************)
\* What numpy answers to 0 / 0 and to the mean of nothing, as a float32 and
\* as a float64.
F32NaN == [m |-> -1, e |-> 0]

F64NaN == [num |-> 0, den |-> 0]

\* A numpy scalar.
Scalar(x) == [shape |-> <<>>, data |-> <<x>>]

\* A numpy vector.
Vector(xs) == [shape |-> <<Len(xs)>>, data |-> xs]

\* The classes of an array: the columns of a matrix, none of a 1-D array.
NClasses(p) == IF Len(p.shape) = 2 THEN p.shape[2] ELSE 0

\* predictions.mean(axis=0): the float32 mean of every column, NaN where
\* there is no row; of the empty 1-D array (of float64), the scalar NaN.
aggregate_predictions_mean(p) ==
    IF Len(p.shape) = 1 THEN Scalar(F64NaN)
    ELSE Vector([j \in 1..NClasses(p) |->
                   IF p.shape[1] = 0 THEN F32NaN
                   ELSE F32DivInt(F32ColSum(p.data, j, 0, p.shape[1]),
                                  p.shape[1])])

\* Variant of aggregate_predictions_max that takes the least value.
aggregate_predictions_min(p) ==
    Vector([j \in 1..NClasses(p) |->
              CHOOSE v \in {p.data[i][j] : i \in 1..p.shape[1]} :
                  \A i \in 1..p.shape[1] : F32Leq(v, p.data[i][j])])

\* predictions.max(axis=0), of an array with at least one row
aggregate_predictions_max(p) ==
    Vector([j \in 1..NClasses(p) |->
              CHOOSE v \in {p.data[i][j] : i \in 1..p.shape[1]} :
                  \A i \in 1..p.shape[1] : F32Leq(p.data[i][j], v)])

\* Variant of aggregate_predictions_cutoff that takes the detection
\* threshold of the run.
aggregate_predictions_cutoff_threshold == F32OfStop(threshold)

\* The cutoff of a vote: the 0.5 of line 117, whatever the threshold is.
aggregate_predictions_cutoff == F32Half

\* Variant of aggregate_predictions_vote that counts 0.5 as a vote.
aggregate_predictions_vote_inclusive(x) == F32Leq(F32Half, x)

\* predictions > 0.5
aggregate_predictions_vote(x) == F32Less(aggregate_predictions_cutoff, x)

\* votes / len(predictions) in float64: k / n, and NaN for 0 / 0
Float64Div(k, n) == IF n = 0 THEN F64NaN ELSE Rat(k, n)

\* (predictions > 0.5).sum(axis=0) / len(predictions)
aggregate_predictions_voting(p) ==
    IF Len(p.shape) = 1 THEN Scalar(Float64Div(0, p.shape[1]))
    ELSE Vector([j \in 1..NClasses(p) |->
                   Float64Div(
                       Cardinality({i \in 1..p.shape[1] :
                                      aggregate_predictions_vote(p.data[i][j])}),
                       p.shape[1])])

\* The method names: the three of the function and one that is none of them.
Methods == {"mean", "max", "voting", "bogus"}

\* Variant of aggregate_predictions_raises that lets every name through.
aggregate_predictions_raises_no_rows(p, m) == m = "max" /\ p.shape[1] = 0

\* The calls that raise ValueError: the maximum of no rows (numpy), and a
\* method that is none of the three.
aggregate_predictions_raises(p, m) ==
    \/ m = "max" /\ p.shape[1] = 0
    \/ m \notin {"mean", "max", "voting"}

aggregate_predictions_value(p, m) ==
    IF m = "mean" THEN aggregate_predictions_mean(p)
    ELSE IF m = "max" THEN aggregate_predictions_max(p)
    ELSE IF m = "voting" THEN aggregate_predictions_voting(p)
    ELSE NoValue

aggregate_predictions_call ==
    /\ pc = "aggregate_predictions.call"
    /\ IF aggregate_predictions_raises(agg_predictions, method)
       THEN /\ pc' = "error"
            /\ UNCHANGED aggregated
       ELSE /\ pc' = "aggregate_predictions.return"
            /\ aggregated' = aggregate_predictions_value(agg_predictions,
                                                         method)
    /\ UNCHANGED <<fn, segVars, frameVars, predVars, predictions, runArgs,
                   smoothVars, agg_predictions, method, outVars, appVars,
                   jsonVars, extraVars>>

(***************************************************************************)
(* pipeline.run_inference                                                  *)
(***************************************************************************)
\* run_inference is running, called from outside or by the application.
InRunInference == fn \in {"run_inference", "main_app"}

\* segment_audio(audio_path), with the default arguments
run_inference_call ==
    /\ pc = "run_inference.call"
    /\ window_sec' = SEGMENT_DURATION
    /\ hop_sec' = HOP_DURATION
    /\ sr' = TARGET_SR
    /\ pc' = "segment_audio.call"
    /\ UNCHANGED <<fn, audio, window_samples, hop_samples, start, segments,
                   times, notSeg>>

\* predict_segments(segments, model)
run_inference_predict ==
    /\ pc = "segment_audio.return"
    /\ InRunInference
    /\ pc' = "predict_segments.call"
    /\ UNCHANGED <<fn, segVars, notSeg>>

\* smooth_predictions(predictions, window_size=smoothing)
run_inference_smooth ==
    /\ pc = "predict_segments.return"
    /\ InRunInference
    /\ window_size' = smoothing
    /\ pc' = "smooth_predictions.call"
    /\ UNCHANGED <<fn, segVars, frameVars, predVars, predictions, runArgs,
                   laterVars, smoothed, smoothed_is, row_i>>

\* Variant of run_inference_aggregate_input that aggregates the predictions
\* as the classifier gave them.
run_inference_aggregate_raw(raw, smooth) == raw

\* The matrix line 152 hands to aggregate_predictions, of the predictions
\* of line 146 and the smoothed ones of line 149.
run_inference_aggregate_input(raw, smooth) == smooth

\* aggregate_predictions(smoothed, method=aggregation)
run_inference_aggregate ==
    /\ pc = "smooth_predictions.return"
    /\ InRunInference
    /\ agg_predictions'
         = run_inference_aggregate_input(predictions, smoothed)
    /\ method' = aggregation
    /\ pc' = "aggregate_predictions.call"
    /\ UNCHANGED <<fn, segVars, frameVars, predVars, predictions, runArgs,
                   smoothVars, aggregated, outVars, appVars, jsonVars,
                   extraVars>>

\* A Python float.
PyFloat(x) == [type |-> "float", value |-> x]

\* A numpy float32 scalar.
NpFloat32(x) == [type |-> "numpy.float32", value |-> x]

\* Variant of run_inference_intensity_value that keeps the numpy scalar.
run_inference_intensity_item(x) == NpFloat32(x)

\* float(smoothed[i, j])
run_inference_intensity_value(x) == PyFloat(x)

\* {cls: float(smoothed[i, j]) for j, cls in enumerate(CLASS_NAMES)}: a
\* dict, as its items in the order of insertion.
run_inference_intensity(i) ==
    [j \in 1..Len(class_names) |->
        [key |-> class_names[j],
         value |-> run_inference_intensity_value(smoothed.data[i + 1][j])]]

\* Variant of run_inference_entry_time that takes the time of the segment
\* before.
run_inference_entry_time_before(i) == times[Max(i, 1)]

\* time_sec of enumerate(times)
run_inference_entry_time(i) == times[i + 1]

\* timeline = []
run_inference_timeline_begin ==
    /\ pc = "aggregate_predictions.return"
    /\ InRunInference
    /\ timeline' = <<>>
    /\ tl_i' = 0
    /\ pc' = "run_inference.timeline"
    /\ UNCHANGED <<fn, segVars, frameVars, predVars, predictions, runArgs,
                   smoothVars, aggVars, json_output, result, appVars,
                   jsonVars, extraVars>>

\* One turn of the loop over enumerate(times); smoothed[i, j] raises
\* IndexError where the array has no such entry.
run_inference_timeline_entry ==
    /\ pc = "run_inference.timeline"
    /\ tl_i < Len(times)
    /\ IF /\ Len(smoothed.shape) = 2
          /\ tl_i < smoothed.shape[1]
          /\ Len(class_names) <= smoothed.shape[2]
       THEN /\ timeline' =
                 Append(timeline,
                        [time_sec |-> PyFloat(run_inference_entry_time(tl_i)),
                         intensity |-> run_inference_intensity(tl_i)])
            /\ tl_i' = tl_i + 1
            /\ pc' = pc
       ELSE /\ pc' = "error"
            /\ UNCHANGED <<timeline, tl_i>>
    /\ UNCHANGED <<fn, segVars, frameVars, predVars, predictions, runArgs,
                   smoothVars, aggVars, json_output, result, appVars,
                   jsonVars, extraVars>>

\* display_name = audio_name if audio_name else audio_path
run_inference_display_name ==
    IF audio_name # "" THEN audio_name ELSE audio_path

\* "classes": CLASS_NAMES puts the list of config.py itself in the record,
\* not a copy of it.
run_inference_classes_object == "config.CLASS_NAMES"

\* json_output is assembled and the four values are returned.
run_inference_return ==
    /\ pc = "run_inference.timeline"
    /\ tl_i >= Len(times)
    /\ json_output' =
          [audio_file |-> run_inference_display_name,
           segment_duration_sec |-> PyFloat(SEGMENT_DURATION),
           hop_duration_sec |-> PyFloat(HOP_DURATION),
           aggregation |-> aggregation,
           smoothing |-> smoothing,
           threshold |-> threshold,
           classes |-> class_names,
           timeline |-> timeline]
    /\ classes_is' = run_inference_classes_object
    /\ result' = [returned |-> TRUE,
                  smoothed |-> smoothed,
                  times |-> times,
                  aggregated |-> aggregated,
                  json_output |-> json_output']
    /\ pc' = "run_inference.return"
    /\ UNCHANGED <<fn, segVars, frameVars, predVars, predictions, runArgs,
                   smoothVars, aggVars, tl_i, timeline, appVars, jsonVars,
                   fileVars, class_names, sessionVars>>

\* The caller of run_inference removes the last name from the 'classes' of
\* the record it was given, json_out["classes"].pop(): a change of that
\* list object, and so of every name bound to it.
caller_pops_class ==
    /\ pc = "run_inference.return"
    /\ fn = "run_inference"
    /\ result' = [result EXCEPT
                    !.json_output.classes =
                        SubSeq(@, 1, Len(@) - 1)]
    /\ class_names' = IF classes_is = "config.CLASS_NAMES"
                      THEN SubSeq(class_names, 1, Len(class_names) - 1)
                      ELSE class_names
    /\ pc' = "caller.return"
    /\ UNCHANGED <<fn, segVars, frameVars, predVars, predictions, runArgs,
                   smoothVars, aggVars, tl_i, timeline, json_output, appVars,
                   jsonVars, fileVars, classes_is, sessionVars>>

(***************************************************************************)
(* utils.io.intensity_to_json                                              *)
(***************************************************************************)
\* The record of the times and the rows of intensities, paired as zip pairs
\* them: as many entries as the shorter of the two has.
intensity_to_json(wav_name, ts, intensities, agg, smooth, thr) ==
    [audio_file |-> wav_name,
     segment_duration_sec |-> PyFloat(SEGMENT_DURATION),
     hop_duration_sec |-> PyFloat(HOP_DURATION),
     aggregation |-> agg,
     smoothing |-> smooth,
     threshold |-> thr,
     classes |-> CLASS_NAMES,
     timeline |->
        [i \in 1..Min(Len(ts), Len(intensities.data)) |->
            [time_sec |-> PyFloat(ts[i]),
             intensity |->
                [j \in 1..Len(CLASS_NAMES) |->
                    [key |-> CLASS_NAMES[j],
                     value |-> PyFloat(intensities.data[i][j])]]]]]

(***************************************************************************)
(* app.main_app: the run that follows a click on the analyze button        *)
(***************************************************************************)
\* The options of the aggregation selectbox.
AggregationOptions == {"mean", "max", "voting"}

\* Stops of the threshold slider (0.0 to 1.0 in steps of 0.05, 0.25 at
\* first): the first and the last.
ThresholdStops == {Rat(1, 4), Rat(1, 1)}

\* Variant of SmoothingStops for a slider that starts at 0.
SmoothingStopsFromZero == 0..Min(7, MaxWindow)

\* Stops of the smoothing slider (1 to 7).
SmoothingStops == 1..Min(7, MaxWindow)

\* Variant of main_app_model_found that does not look for the file.
main_app_model_assumed == TRUE

\* os.path.exists(model_path)
main_app_model_found == model_exists

\* The upload is written to a new temporary file that closing does not
\* delete, and the model file is looked for; without it the run stops, with
\* it the model is loaded, which raises for a file that is no model, and
\* run_inference is called with the values of the widgets.
main_app_run ==
    /\ pc = "main_app.run"
    /\ temp_files' = temp_files + 1
    /\ IF ~main_app_model_found
       THEN /\ shown' = Append(shown, "error: Model file not found")
            /\ pc' = "main_app.stop"
       ELSE /\ shown' = shown
            /\ pc' = IF model_loads THEN "run_inference.call" ELSE "error"
    /\ UNCHANGED <<fn, segVars, frameVars, predVars, predictions, runArgs,
                   smoothVars, aggVars, outVars, model_exists, results,
                   jsonVars, model_loads, objVars, sessionVars>>

\* results["aggregated"][i] >= threshold, for a float32 or a float64 entry;
\* no comparison with NaN is true.
main_app_detected(x, thr) ==
    IF x = F32NaN \/ x = F64NaN THEN FALSE
    ELSE IF "m" \in DOMAIN x THEN F32Leq(F32OfStop(thr), x)
    ELSE RatLeq(thr, x)

RECURSIVE SelectItems(_, _)
SelectItems(items, keep) ==
    IF items = <<>> THEN <<>>
    ELSE IF keep[Len(keep) - Len(items) + 1]
         THEN <<Head(items)>> \o SelectItems(Tail(items), Tail(keep))
         ELSE SelectItems(Tail(items), Tail(keep))

\* confidence_dict of the export tab: the classes whose aggregated value is
\* at or above the threshold of the slider, in the order of CLASS_NAMES.
main_app_confidence_dict(res, thr) ==
    LET n == Len(class_names)
        keep == [j \in 1..n |-> main_app_detected(res.aggregated.data[j], thr)]
        items == [j \in 1..n |->
                   [key |-> class_names[j],
                    value |-> PyFloat(res.aggregated.data[j])]]
    IN  SelectItems(items, keep)

\* The arguments the export tab gives generate_pdf_report each time the
\* script runs with results in the session state: the values the widgets
\* have in this run.  An aggregated value that is no vector cannot be
\* indexed.
main_app_pdf(res, data, agg, thr, smooth, figures) ==
    IF res = NoValue THEN NoValue
    ELSE IF Len(res.aggregated.shape) # 1
              \/ res.aggregated.shape[1] < Len(class_names)
         THEN [raised |-> "IndexError"]
         ELSE [audio_name |-> data.name,
               aggregation |-> agg,
               threshold |-> thr,
               smoothing |-> smooth,
               confidence_dict |-> main_app_confidence_dict(res, thr),
               visualizations |-> figures]

\* The figures the visualizations tab stores when the script runs: the
\* waveform and the spectrogram of the upload, and the timeline of results
\* that have times and rows.
main_app_figures(res, data, figures) ==
    IF data = NoValue THEN figures
    ELSE figures \cup {"waveform", "mel_spec"}
           \cup IF /\ res # NoValue
                   /\ res.times # <<>>
                   /\ res.smoothed.data # <<>>
                THEN {"timeline"}
                ELSE {}

\* st.session_state.results = {...}, os.unlink(temp_path), st.success,
\* st.rerun, and the run of the script that follows, which draws the
\* figures and writes the PDF report.
main_app_store ==
    /\ pc = "run_inference.return"
    /\ fn = "main_app"
    /\ results' = [aggregated |-> result.aggregated,
                   json |-> result.json_output,
                   smoothed |-> result.smoothed,
                   times |-> result.times]
    /\ temp_files' = temp_files - 1
    /\ shown' = Append(shown, "success: Analysis complete!")
    /\ visualizations' = main_app_figures(results', audio_data,
                                          visualizations)
    /\ pdf' = main_app_pdf(results', audio_data, aggregation, threshold,
                           smoothing, visualizations')
    /\ pc' = "main_app.rerun"
    /\ UNCHANGED <<fn, segVars, frameVars, predVars, predictions, runArgs,
                   smoothVars, aggVars, outVars, model_exists, jsonVars,
                   model_loads, objVars, authenticated, login_success, user,
                   audio_data>>

(***************************************************************************)
(* A session of the application: the entry point of app.py runs login_page *)
(* or main_app each time the script runs, that is on every event and after *)
(* every st.rerun.                                                         *)
(***************************************************************************)
\* The row of the users table that verify_user returns for the credentials
\* of a user.
UserRow == [username |-> "ada", email |-> "ada@example.org"]

\* The samples of HOP_DURATION at TARGET_SR.
BlockLen == ToSamples(HOP_DURATION, TARGET_SR)

RECURSIVE Blocks(_)
Blocks(s) ==
    IF s = <<>> THEN <<>>
    ELSE AConcat(AFill(Head(s), BlockLen), Blocks(Tail(s)))

\* verify_user(email, password): the row of the user for credentials the
\* users table holds, nothing for others.
verify_user(credentials) ==
    IF credentials = "valid"
    THEN [success |-> TRUE, user_data |-> UserRow]
    ELSE [success |-> FALSE, user_data |-> NoValue]

\* What a visitor can submit in the login form.
Credentials == {"valid", "invalid"}

\* Variant of login_page_redirects that does not look at the flag.
login_page_redirects_always == TRUE

\* st.session_state.get("login_success")
login_page_redirects == login_success

\* The locals of a run of the script, before the inference block.
RunLocalsFresh ==
    /\ window_samples = 0
    /\ hop_samples = 0
    /\ start = 0
    /\ segments = <<>>
    /\ times = <<>>
    /\ mel = <<>>
    /\ mel_out = <<>>
    /\ seg_i = 0
    /\ pred_list = <<>>
    /\ model_calls = <<>>
    /\ predictions = NpArray(<<>>)
    /\ window_size = 0
    /\ smoothed = NpArray(<<>>)
    /\ smoothed_is = "nothing"
    /\ row_i = 0
    /\ agg_predictions = NoValue
    /\ method = "mean"
    /\ aggregated = NoValue
    /\ tl_i = 0
    /\ timeline = <<>>
    /\ json_output = NoValue
    /\ result = NoResult
    /\ classes_is = "nothing"

runLocals == <<window_samples, hop_samples, start, segments, times, mel,
               mel_out, seg_i, pred_list, model_calls, predictions,
               window_size, smoothed, smoothed_is, row_i, agg_predictions,
               method, aggregated, tl_i, timeline, json_output, result,
               classes_is>>

\* What no event of a session changes: the function, the decoding rate and
\* window, the model and its file, the list of classes, the path of the
\* temporary file and the texts of the export.
sessionFrame == <<fn, sr, window_sec, hop_sec, model, model_exists,
                  model_loads, temp_files, class_names, audio_path,
                  json_str, parsed>>

\* A run of the script without a login: login_page.  With the flag of a
\* successful login set, the session becomes authenticated and the script
\* runs again; else a submitted form is verified, and credentials that are
\* verified set the user and the flag and run the script again.
login_page(submitted) ==
    /\ ~authenticated
    /\ IF login_page_redirects
       THEN /\ authenticated' = TRUE
            /\ login_success' = FALSE
            /\ pc' = "st.rerun"
            /\ UNCHANGED <<user, shown>>
       ELSE IF submitted = "nothing"
       THEN /\ pc' = "login_page"
            /\ shown' = <<>>
            /\ UNCHANGED <<authenticated, login_success, user>>
       ELSE IF verify_user(submitted).success
       THEN /\ user' = verify_user(submitted).user_data
            /\ login_success' = TRUE
            /\ pc' = "st.rerun"
            /\ UNCHANGED <<authenticated, shown>>
       ELSE /\ shown' = <<"error: Invalid email or password">>
            /\ pc' = "login_page"
            /\ UNCHANGED <<authenticated, login_success, user>>
    /\ UNCHANGED <<sessionFrame, runLocals, audio, runArgs, results,
                   audio_data, visualizations, pdf>>

\* The form of the login page is submitted.
login_page_submit ==
    /\ pc = "login_page"
    /\ \E submitted \in Credentials : login_page(submitted)

\* The script runs again after st.rerun, without a login.
login_page_rerun ==
    /\ pc = "st.rerun"
    /\ login_page("nothing")

\* The tabs of main_app as the script draws them: the figures of the
\* upload and the PDF report of the results.
main_app_tabs ==
    /\ visualizations' = main_app_figures(results', audio_data',
                                          visualizations)
    /\ pdf' = main_app_pdf(results', audio_data', aggregation', threshold',
                           smoothing', visualizations')

\* The script runs again after st.rerun, with a login: main_app.
main_app_rerun ==
    /\ pc = "st.rerun"
    /\ authenticated
    /\ shown' = <<>>
    /\ pc' = "main_app.rerun"
    /\ UNCHANGED <<sessionFrame, runLocals, audio, runArgs, results,
                   audio_data, authenticated, login_success, user>>
    /\ main_app_tabs

\* The page of main_app is shown and waits for an event.
MainPage == pc = "main_app.rerun" /\ authenticated

\* The click on Logout.
main_app_logout ==
    /\ MainPage
    /\ authenticated' = FALSE
    /\ user' = NoValue
    /\ results' = NoValue
    /\ audio_data' = NoValue
    /\ visualizations' = {}
    /\ pdf' = NoValue
    /\ pc' = "st.rerun"
    /\ UNCHANGED <<sessionFrame, runLocals, audio, runArgs, login_success,
                   shown>>

\* The files a user uploads: their names without the extension and the
\* waveforms they decode to.
SessionFiles ==
    {[name |-> "duet", samples |-> Blocks(<<1, 0, 1>>)],
     [name |-> "trio",
      samples |-> AConcat(Blocks(<<0, 1, 1>>), AFill(1, 1))]}

\* A file is chosen in the uploader.
main_app_upload ==
    /\ MainPage
    /\ \E file \in SessionFiles :
          /\ audio' = file.samples
          /\ audio_name' = file.name
          /\ audio_data' = [bytes |-> file.samples, name |-> file.name]
    /\ shown' = <<>>
    /\ UNCHANGED <<pc, sessionFrame, runLocals, aggregation, threshold,
                   smoothing, results, authenticated, login_success, user>>
    /\ main_app_tabs

\* The selectbox or a slider is moved.
main_app_settings ==
    /\ MainPage
    /\ aggregation' \in AggregationOptions
    /\ threshold' \in ThresholdStops
    /\ smoothing' \in SmoothingStops
    /\ <<aggregation', threshold', smoothing'>>
         # <<aggregation, threshold, smoothing>>
    /\ shown' = <<>>
    /\ UNCHANGED <<pc, sessionFrame, runLocals, audio, audio_name, results,
                   audio_data, authenticated, login_success, user>>
    /\ main_app_tabs

\* The click on 'Analyze Track', enabled with an upload: the script draws
\* the page and comes to the inference block.
main_app_analyze ==
    /\ MainPage
    /\ audio_data # NoValue
    \* The locals of the new run of the script.
    /\ window_samples' = 0
    /\ hop_samples' = 0
    /\ start' = 0
    /\ segments' = <<>>
    /\ times' = <<>>
    /\ mel' = <<>>
    /\ mel_out' = <<>>
    /\ seg_i' = 0
    /\ pred_list' = <<>>
    /\ model_calls' = <<>>
    /\ predictions' = NpArray(<<>>)
    /\ window_size' = 0
    /\ smoothed' = NpArray(<<>>)
    /\ smoothed_is' = "nothing"
    /\ row_i' = 0
    /\ agg_predictions' = NoValue
    /\ method' = "mean"
    /\ aggregated' = NoValue
    /\ tl_i' = 0
    /\ timeline' = <<>>
    /\ json_output' = NoValue
    /\ result' = NoResult
    /\ classes_is' = "nothing"
    /\ shown' = <<>>
    /\ pc' = "main_app.run"
    /\ UNCHANGED <<sessionFrame, audio, runArgs, results, audio_data,
                   authenticated, login_success, user>>
    /\ main_app_tabs

(***************************************************************************)
(* json.dumps(results["json"], indent=2) of the export tab, and json.loads *)
(* of the text by whoever reads the report.  A text is the sequence of its *)
(* tokens: punctuation, string literals, and number literals.  The literal *)
(* of a float is its repr, the shortest decimal that float() reads back as *)
(* the same float64; the literal of an int is its digits.                  *)
(***************************************************************************)
Punct(c) == [k |-> "punct", v |-> c]

StrLit(x) == [k |-> "str", v |-> x]

IntLit(x) == [k |-> "int", v |-> x]

FloatLit(x) == [k |-> "float", v |-> x]

\* Texts one after the other, with commas in between.
RECURSIVE JoinComma(_)
JoinComma(texts) ==
    IF texts = <<>> THEN <<>>
    ELSE IF Len(texts) = 1 THEN texts[1]
    ELSE texts[1] \o <<Punct(",")>> \o JoinComma(Tail(texts))

\* The values json.dumps has no encoding for: numpy scalars.
Serializable(x) == x.type = "float"

\* The text of a Python float.
DumpsFloat(x) == <<FloatLit(x.value)>>

DumpsList(texts) == <<Punct("[")>> \o JoinComma(texts) \o <<Punct("]")>>

\* The text of a dict: its items in the order of insertion.
DumpsDict(items) ==
    <<Punct("{")>>
    \o JoinComma([i \in 1..Len(items) |->
                    <<StrLit(items[i].key), Punct(":")>> \o items[i].text])
    \o <<Punct("}")>>

DumpsEntry(entry) ==
    DumpsDict(<<
        [key |-> "time_sec", text |-> DumpsFloat(entry.time_sec)],
        [key |-> "intensity",
         text |-> DumpsDict([j \in 1..Len(entry.intensity) |->
                     [key |-> entry.intensity[j].key,
                      text |-> DumpsFloat(entry.intensity[j].value)]])]>>)

\* json.dumps of the record run_inference assembles, key by key.
JsonDumps(rec) ==
    DumpsDict(<<
        [key |-> "audio_file", text |-> <<StrLit(rec.audio_file)>>],
        [key |-> "segment_duration_sec",
         text |-> DumpsFloat(rec.segment_duration_sec)],
        [key |-> "hop_duration_sec",
         text |-> DumpsFloat(rec.hop_duration_sec)],
        [key |-> "aggregation", text |-> <<StrLit(rec.aggregation)>>],
        [key |-> "smoothing", text |-> <<IntLit(rec.smoothing)>>],
        [key |-> "threshold", text |-> <<FloatLit(rec.threshold)>>],
        [key |-> "classes",
         text |-> DumpsList([j \in 1..Len(rec.classes) |->
                               <<StrLit(rec.classes[j])>>])],
        [key |-> "timeline",
         text |-> DumpsList([i \in 1..Len(rec.timeline) |->
                               DumpsEntry(rec.timeline[i])])]>>)

\* json.dumps raises TypeError for a record with a value it cannot encode.
JsonDumpsRaises(rec) ==
    \E i \in 1..Len(rec.timeline) :
        \/ ~Serializable(rec.timeline[i].time_sec)
        \/ \E j \in 1..Len(rec.timeline[i].intensity) :
              ~Serializable(rec.timeline[i].intensity[j].value)

\* json.loads: the value that starts at token i of the text and the place
\* after it.  A dict is read as its items in the order of the text, a list
\* as its elements, a literal as the str, int or float it denotes.
RECURSIVE ParseValue(_, _), ParseItems(_, _, _), ParseElems(_, _, _)
ParseItems(text, i, acc) ==
    IF text[i] = Punct("}") THEN [v |-> [t |-> "dict", items |-> acc],
                                  next |-> i + 1]
    ELSE LET at == IF text[i] = Punct(",") THEN i + 1 ELSE i
             val == ParseValue(text, at + 2)
         IN  ParseItems(text, val.next,
                        Append(acc, [key |-> text[at].v, value |-> val.v]))

ParseElems(text, i, acc) ==
    IF text[i] = Punct("]") THEN [v |-> [t |-> "list", elems |-> acc],
                                  next |-> i + 1]
    ELSE LET at == IF text[i] = Punct(",") THEN i + 1 ELSE i
             val == ParseValue(text, at)
         IN  ParseElems(text, val.next, Append(acc, val.v))

ParseValue(text, i) ==
    IF text[i] = Punct("{") THEN ParseItems(text, i + 1, <<>>)
    ELSE IF text[i] = Punct("[") THEN ParseElems(text, i + 1, <<>>)
    ELSE [v |-> [t |-> text[i].k, value |-> text[i].v], next |-> i + 1]

JsonLoads(text) == ParseValue(text, 1).v

\* The export tab of a run that finds results in the session state.
main_app_export ==
    /\ pc = "main_app.rerun"
    /\ IF JsonDumpsRaises(results.json)
       THEN /\ pc' = "error"
            /\ UNCHANGED json_str
       ELSE /\ pc' = "main_app.export"
            /\ json_str' = JsonDumps(results.json)
    /\ UNCHANGED <<fn, segVars, frameVars, predVars, predictions, runArgs,
                   smoothVars, aggVars, outVars, appVars, parsed, extraVars>>

\* The downloaded report is parsed.
json_loads ==
    /\ pc = "main_app.export"
    /\ parsed' = JsonLoads(json_str)
    /\ pc' = "json.loads.return"
    /\ UNCHANGED <<fn, segVars, frameVars, predVars, predictions, runArgs,
                   smoothVars, aggVars, outVars, appVars, json_str,
                   extraVars>>

(***************************************************************************)
(* Values of the variables a specification does not use.                   *)
(***************************************************************************)
\* Nobody is logged in and nothing was uploaded; the model file loads, the
\* configuration is as config.py sets it.
ExtraIdle ==
    /\ temp_files = 0
    /\ model_loads = TRUE
    /\ class_names = CLASS_NAMES
    /\ classes_is = "nothing"
    /\ authenticated = FALSE
    /\ login_success = FALSE
    /\ user = NoValue
    /\ audio_data = NoValue
    /\ visualizations = {}
    /\ pdf = NoValue

SegIdle ==
    /\ audio = <<>>
    /\ sr = TARGET_SR
    /\ window_sec = SEGMENT_DURATION
    /\ hop_sec = HOP_DURATION
    /\ window_samples = 0
    /\ hop_samples = 0
    /\ start = 0
    /\ segments = <<>>
    /\ times = <<>>

FramesIdle ==
    /\ mel = <<>>
    /\ mel_out = <<>>

PredIdle ==
    /\ model = 1
    /\ seg_i = 0
    /\ pred_list = <<>>
    /\ model_calls = <<>>

RunIdle ==
    /\ aggregation = "mean"
    /\ threshold = Rat(1, 4)
    /\ smoothing = 0
    /\ audio_name = ""
    /\ audio_path = ""
    /\ agg_predictions = NoValue
    /\ method = "mean"
    /\ aggregated = NoValue
    /\ tl_i = 0
    /\ timeline = <<>>
    /\ json_output = NoValue
    /\ result = NoResult
    /\ model_exists = TRUE
    /\ results = NoValue
    /\ shown = <<>>
    /\ json_str = <<>>
    /\ parsed = NoValue
    /\ ExtraIdle

SmoothIdle ==
    /\ window_size = 0
    /\ smoothed = NpArray(<<>>)
    /\ smoothed_is = "nothing"
    /\ row_i = 0

(***************************************************************************)
(* The segmenters, called with any waveform and any parameters.            *)
(***************************************************************************)
\* A 6 second waveform at 16000 Hz, no sample of it zero.
SixSeconds == AFill(1, 6 * 16000)

InitSeg ==
    /\ \/ fn = "segment_audio" /\ pc = "segment_audio.call"
       \/ fn = "sliding_windows" /\ pc = "sliding_windows.call"
    /\ \/ /\ audio \in {AFromSeq(s) : s \in SeqsUpTo(Samples, MaxLen)}
          /\ sr \in 1..MaxSr
          /\ window_sec \in Durations
          /\ hop_sec \in Durations
       \/ /\ audio = SixSeconds
          /\ sr = 16000
          /\ window_sec = Rat(3, 1)
          /\ hop_sec = Rat(3, 2)
    /\ window_samples = 0
    /\ hop_samples = 0
    /\ start = 0
    /\ segments = <<>>
    /\ times = <<>>
    /\ FramesIdle
    /\ PredIdle
    /\ predictions = NpArray(<<>>)
    /\ RunIdle
    /\ SmoothIdle

NextSeg ==
    \/ segment_audio_begin
    \/ segment_audio_iter
    \/ segment_audio_exhausted
    \/ sliding_windows_begin
    \/ sliding_windows_iter
    \/ sliding_windows_exhausted

SpecSeg == InitSeg /\ [][NextSeg]_vars

(***************************************************************************)
(* Properties of the segmenters (checked under SpecSeg).                   *)
(***************************************************************************)
Returned == pc \in {"segment_audio.return", "sliding_windows.return"}

\* The six second scenario: 96000 samples at 16000 Hz, windows of 3.0 s
\* every 1.5 s.
Scenario ==
    /\ audio = SixSeconds
    /\ sr = 16000
    /\ window_sec = Rat(3, 1)
    /\ hop_sec = Rat(3, 2)

\* Start sample of the k-th segment (k counted from 1).
StartOf(k) == (k - 1) * hop_samples

\* The k-th segment reaches past the end of the waveform.
PastEnd(k) == StartOf(k) + window_samples > ALen(audio)

\* The count of segments where the waveform is not empty and the hop is no
\* longer than the window.
SegmentCountNonEmptyNoGap ==
    (Returned /\ window_samples >= 1 /\ hop_samples >= 1
              /\ ALen(audio) >= 1 /\ hop_samples <= window_samples)
        => Len(segments)
             = CeilDiv(Max(ALen(audio) - window_samples, 0), hop_samples) + 1

\* C1: for every waveform length L >= 0, window_samples >= 1 and
\* hop_samples >= 1 the segmenter returns exactly
\* ceil(max(L - window_samples, 0) / hop_samples) + 1 segments.
C1_SegmentCount ==
    (Returned /\ window_samples >= 1 /\ hop_samples >= 1)
        => Len(segments)
             = CeilDiv(Max(ALen(audio) - window_samples, 0), hop_samples) + 1

\* C2: an empty waveform, or one shorter than one hop, gives exactly one
\* segment, with start time 0 and window_samples samples.
C2_ShortGivesOneSegment ==
    (Returned /\ window_samples >= 1 /\ hop_samples >= 1
              /\ ALen(audio) < hop_samples)
        => /\ Len(segments) = 1
           /\ times = <<Rat(0, sr)>>
           /\ ALen(segments[1]) = window_samples

\* C3: every emitted segment has exactly window_samples samples: the
\* samples of the waveform from its start on, then only zeros on the right.
C3_SegmentIsSliceThenZeros ==
    \A k \in 1..Len(segments) :
        /\ ALen(segments[k]) = window_samples
        /\ \A i \in 0..(window_samples - 1) :
              AAt(segments[k], i)
                = IF StartOf(k) + i < ALen(audio)
                  THEN AAt(audio, StartOf(k) + i)
                  ELSE 0

\* A call has returned two segments or more, the last of them padded and
\* holding a sample that is not zero.
C3_Witness ==
    /\ Returned
    /\ Len(segments) >= 2
    /\ PastEnd(Len(segments))
    /\ AAt(audio, ALen(audio) - 1) # 0
    /\ AAt(segments[Len(segments)], 0) # 0

\* C4: the start times are as many as the segments, the k-th (from 0) is
\* k * hop_samples / sample_rate, and they increase strictly.
C4_StartTimes ==
    /\ Len(times) = Len(segments)
    /\ \A k \in 1..Len(times) : times[k] = Rat(StartOf(k), sr)
    /\ \A k \in 1..(Len(times) - 1) : RatLess(times[k], times[k + 1])

\* A call at a sample rate other than 1 has returned three segments or more.
C4_Witness ==
    /\ Returned
    /\ sr > 1
    /\ Len(times) >= 3

\* C5 as stated: the scenario gives 3 segments starting at 0.0, 1.5 and
\* 3.0 s, the third one zero-padded at its tail.
C5_ThirdSegmentPadded ==
    (Returned /\ Scenario)
        => /\ Len(segments) = 3
           /\ times = <<Rat(0, 1), Rat(3, 2), Rat(3, 1)>>
           /\ PastEnd(3)

\* C5 as amended: the scenario gives 3 segments starting at 0.0, 1.5 and
\* 3.0 s; the third one ends exactly at the end of the waveform, it is the
\* last 48000 samples and holds no padding.
C5_ThreeSegmentsNoPadding ==
    (Returned /\ Scenario)
        => /\ Len(segments) = 3
           /\ times = <<Rat(0, 1), Rat(3, 2), Rat(3, 1)>>
           /\ StartOf(3) + window_samples = ALen(audio)
           /\ segments[3] = ASlice(audio, 48000, 96000)
           /\ \A r \in 1..Len(segments[3]) : segments[3][r].v # 0

\* The scenario has run to its end.
C5_Witness == Returned /\ Scenario /\ Len(segments) = 3

\* The k-th segment ends before the end of the waveform.
EndsBefore(k) == StartOf(k) + window_samples < ALen(audio)

\* C19: for every waveform length L >= 1, window_samples >= 1 and
\* hop_samples >= 1, hop_samples > window_samples included, the last segment
\* is the first whose end, start + window_samples, is >= L: every segment
\* before it ends before L, and it reaches or passes L.
C19_LastSegmentReachesEnd ==
    (Returned /\ ALen(audio) >= 1 /\ window_samples >= 1
              /\ hop_samples >= 1)
        => /\ Len(segments) >= 1
           /\ \A k \in 1..(Len(segments) - 1) : EndsBefore(k)
           /\ ~EndsBefore(Len(segments))

\* The same where the hop is no longer than the window.
LastSegmentReachesEndNoGap ==
    (Returned /\ ALen(audio) >= 1 /\ window_samples >= 1
              /\ hop_samples >= 1 /\ hop_samples <= window_samples)
        => /\ Len(segments) >= 1
           /\ \A k \in 1..(Len(segments) - 1) : EndsBefore(k)
           /\ ~EndsBefore(Len(segments))

(***************************************************************************)
(* The frame fixing, applied to spectrograms of any frame count.           *)
(***************************************************************************)
\* A row of r frames, no value of it zero: runs of p frames, of the values
\* 1 and 2 in turn, the first run of the value 1 + (i % 2).
PatternRow(i, r, p) ==
    [k \in 1..CeilDiv(r, p) |->
        [v |-> 1 + ((k + i + 1) % 2),
         n |-> IF k * p <= r THEN p ELSE r - (k - 1) * p]]

\* A spectrogram of b bands and r frames: runs of p frames in a short one,
\* of 16 * p frames in a long one.
PatternMel(b, r, p) ==
    AFromSeq([i \in 1..b |->
                PatternRow(i, r, IF r <= 16 THEN p ELSE 16 * p)])

FrameRates == {1, 2 * HOP_LENGTH, TARGET_SR}

\* The raw frame counts: up to MaxExtraFrames frames, and up to
\* MaxExtraFrames frames fewer or more than each target.
RawFrameCounts ==
    LET targets == {TARGET_FRAMES}
                     \cup {fix_mel_frames_target(x) : x \in FrameRates}
    IN  {r \in 0..(fix_mel_frames_target(TARGET_SR) + MaxExtraFrames) :
            \/ r <= MaxExtraFrames
            \/ \E t \in targets :
                  r \in (t - MaxExtraFrames)..(t + MaxExtraFrames)}

RawMels ==
    {PatternMel(b, r, p) :
        b \in 1..MaxMels, r \in RawFrameCounts, p \in 1..MaxPattern}

InitFrames ==
    /\ mel \in RawMels
    /\ mel_out = <<>>
    /\ audio = <<>>
    /\ window_sec = SEGMENT_DURATION
    /\ hop_sec = HOP_DURATION
    /\ window_samples = 0
    /\ hop_samples = 0
    /\ start = 0
    /\ segments = <<>>
    /\ times = <<>>
    /\ PredIdle
    /\ predictions = NpArray(<<>>)
    /\ RunIdle
    /\ SmoothIdle
    /\ \/ /\ fn = "predict_segments_fix_shape"
          /\ pc = "predict_segments_fix_shape.call"
          /\ sr = TARGET_SR
       \/ /\ fn = "fix_mel_frames"
          /\ pc = "fix_mel_frames.call"
          /\ sr \in FrameRates

NextFrames ==
    \/ predict_segments_fix_call
    \/ fix_mel_frames_call

SpecFrames == InitFrames /\ [][NextFrames]_vars

FramesReturned ==
    pc \in {"predict_segments_fix_shape.return", "fix_mel_frames.return"}

\* The frame count the running function fixes the spectrogram to.
TargetOf ==
    IF fn = "fix_mel_frames" THEN fix_mel_frames_target(sr) ELSE TARGET_FRAMES

\* C6: for every raw frame count r >= 0 the fixed spectrogram has exactly
\* target_frames frames and as many mel bands as before; its frames are the
\* first frames of the raw one, followed by zeros when those are too few.
C6_FramesFixed ==
    FramesReturned =>
        /\ MRows(mel_out) = MRows(mel)
        /\ \A b \in 0..(MRows(mel) - 1) :
              /\ ALen(AAt(mel_out, b)) = TargetOf
              /\ \A j \in 0..(TargetOf - 1) :
                    MAt(mel_out, b, j)
                      = IF j < MCols(mel) THEN MAt(mel, b, j) ELSE 0

\* A spectrogram of fewer frames than the target, at least one, was fixed.
C6_Witness ==
    /\ FramesReturned
    /\ fn = "predict_segments_fix_shape"
    /\ MCols(mel) > 0
    /\ MCols(mel) < TargetOf
    /\ MRows(mel) > 1

\* A spectrogram of more frames than the target was fixed.
FramesTruncated ==
    /\ FramesReturned
    /\ MCols(mel) > TargetOf

\* ceil(window_seconds * sample_rate / hop_length) for the configured values
ConfiguredCeil ==
    CeilDiv(SEGMENT_DURATION.num * TARGET_SR,
            SEGMENT_DURATION.den * HOP_LENGTH)

\* C20: at the configured 3.0 s, 22050 Hz and hop length 512 the frame count
\* a spectrogram is fixed to is ceil(window_seconds * sample_rate /
\* hop_length), by predict_segments as by fix_mel_frames.
C20_TargetFramesIsCeil ==
    (FramesReturned /\ sr = TARGET_SR)
        => /\ TargetOf = ConfiguredCeil
           /\ ALen(AAt(mel_out, 0)) = ConfiguredCeil

(***************************************************************************)
(* smooth_predictions, called with any matrix and any window size.         *)
(***************************************************************************)
\* Matrices of up to MaxRows rows and MaxClasses classes; the first class of
\* a row is any of the probabilities, the others follow from it.
SmoothInputs ==
    {NpArray(<<>>)} \cup
    UNION {
        {[shape |-> <<n, c>>,
          data |-> [i \in 1..n |->
                     [j \in 1..c |->
                        ProbSeq[((col[i] - 1 + (j - 1) * i) % Len(ProbSeq)) + 1]]]] :
            col \in [1..n -> 1..Len(ProbSeq)]} :
        n \in 0..MaxRows, c \in 1..MaxClasses}

InitSmooth ==
    /\ fn = "smooth_predictions"
    /\ pc = "smooth_predictions.call"
    /\ predictions \in SmoothInputs
    /\ window_size \in (-1)..MaxWindow
    /\ smoothed = NpArray(<<>>)
    /\ smoothed_is = "nothing"
    /\ row_i = 0
    /\ RunIdle
    /\ SegIdle
    /\ FramesIdle
    /\ PredIdle

NextSmooth ==
    \/ smooth_predictions_call
    \/ smooth_predictions_row
    \/ smooth_predictions_return

SpecSmooth == InitSmooth /\ [][NextSmooth]_vars

(***************************************************************************)
(* Properties of smooth_predictions (checked under SpecSmooth).            *)
(***************************************************************************)
SmoothReturned == pc = "smooth_predictions.return"

IsMatrix(p) == Len(p.shape) = 2

\* The rows of the result that have their final value.
RowsWritten ==
    IF SmoothReturned THEN Len(smoothed.data)
    ELSE IF pc = "smooth_predictions.loop" THEN row_i
    ELSE 0

\* The first and the last row of the centred window of row i, clipped to the
\* rows 0 .. n - 1.
WindowFirst(i) == Max(0, i - window_size \div 2)

WindowLast(i) == Min(predictions.shape[1] - 1, i + window_size \div 2)

\* The float32 mean of class j over the rows first .. last of the input.
WindowMean(j, first, last) ==
    F32DivInt(F32ColSum(predictions.data, j, first, last + 1),
              last - first + 1)

WindowValues(i, j) ==
    {predictions.data[k + 1][j] : k \in WindowFirst(i)..WindowLast(i)}

\* C8: for a matrix of n >= 1 rows and window_size >= 1 the result has the
\* shape of the input, and its row i is, class by class, the mean of the
\* input rows max(0, i - window_size \div 2) .. min(n - 1, i + window_size \div
\* 2) and of no other row.
C8_RowIsWindowMean ==
    (/\ SmoothReturned
     /\ IsMatrix(predictions)
     /\ predictions.shape[1] >= 1
     /\ window_size >= 1)
    => /\ smoothed.shape = predictions.shape
       /\ Len(smoothed.data) = predictions.shape[1]
       /\ \A i \in 0..(predictions.shape[1] - 1) :
             /\ Len(smoothed.data[i + 1]) = predictions.shape[2]
             /\ \A j \in 1..predictions.shape[2] :
                   smoothed.data[i + 1][j]
                     = WindowMean(j, WindowFirst(i), WindowLast(i))

\* A matrix of three rows was smoothed over windows that are clipped at both
\* ends, and smoothing changed it.
C8_Witness ==
    /\ SmoothReturned
    /\ IsMatrix(predictions)
    /\ predictions.shape[1] = 3
    /\ window_size = 3
    /\ \A i \in 1..3 : smoothed.data[i] # predictions.data[i]
    /\ smoothed.data[1] # smoothed.data[3]

\* C9: with window_size = 1 the result equals the input in every entry.
C9_WindowOneIsIdentity ==
    (SmoothReturned /\ window_size = 1) => smoothed = predictions

\* A matrix of several different rows went through with window_size = 1.
C9_Witness ==
    /\ SmoothReturned
    /\ window_size = 1
    /\ IsMatrix(predictions)
    /\ predictions.shape[1] >= 2
    /\ predictions.data[1] # predictions.data[2]
    /\ \E j \in 1..predictions.shape[2] :
          F32Less(F32Zero, predictions.data[1][j])

SmoothedCases ==
    {<<i, j>> \in (0..(RowsWritten - 1)) \X (1..MaxClasses + 1) :
        /\ IsMatrix(predictions)
        /\ window_size > 1
        /\ j <= predictions.shape[2]}

\* C10 as stated: every value written is at least the least and at most the
\* greatest of the input values of its class in its window.
C10_WithinWindowHull ==
    \A c \in SmoothedCases :
        /\ \E u \in WindowValues(c[1], c[2]) :
              F32Leq(u, smoothed.data[c[1] + 1][c[2]])
        /\ \E u \in WindowValues(c[1], c[2]) :
              F32Leq(smoothed.data[c[1] + 1][c[2]], u)

\* C10, with the rounding of the float32 mean: every value written is within
\* k float32 neighbours of the interval from the least to the greatest input
\* value of its class in its window of k rows, and inputs in [0, 1] give
\* values in [0, 1].
C10_WithinRoundedHull ==
    \A c \in SmoothedCases :
        LET out == smoothed.data[c[1] + 1][c[2]]
            k == WindowLast(c[1]) - WindowFirst(c[1]) + 1
        IN  /\ \E u \in WindowValues(c[1], c[2]) :
                  F32Ord(u) - k <= F32Ord(out)
            /\ \E u \in WindowValues(c[1], c[2]) :
                  F32Ord(out) <= F32Ord(u) + k
            /\ (\A u \in WindowValues(c[1], c[2]) : F32Leq(u, F32One))
                  => F32Leq(out, F32One)

\* A mean of several rows was written that is none of the input values.
C10_Witness ==
    /\ SmoothReturned
    /\ \E c \in SmoothedCases :
          /\ smoothed.data[c[1] + 1][c[2]] \notin WindowValues(c[1], c[2])
          /\ WindowLast(c[1]) - WindowFirst(c[1]) >= 2

\* A mean of equal values came out below them.
MeanBelowEqualInputs ==
    \E c \in SmoothedCases :
        /\ WindowValues(c[1], c[2]) = {F32Near09}
        /\ F32Less(smoothed.data[c[1] + 1][c[2]], F32Near09)

(***************************************************************************)
(* run_inference on any audio file: segmentation, prediction, smoothing.   *)
(***************************************************************************)
\* Waveforms of up to MaxBlocks blocks of equal samples, with or without one
\* more sample at the end.
AudioFiles ==
    {AConcat(Blocks(s), AFill(1, t)) :
        s \in SeqsUpTo(Samples, MaxBlocks), t \in 0..1}

\* What a run before this one left in st.session_state.results.
EarlierResults ==
    [aggregated |-> Vector([j \in 1..Len(CLASS_NAMES) |-> F32Half]),
     json |-> NoValue,
     smoothed |-> NpArray(<<[j \in 1..Len(CLASS_NAMES) |-> F32Half]>>),
     times |-> <<Rat(0, 1)>>]

\* The application runs run_inference with the values of its widgets on the
\* uploaded file, and the model it loads from its model file.
InitApp ==
    /\ fn = "main_app"
    /\ pc = "main_app.run"
    /\ aggregation \in AggregationOptions
    /\ threshold \in ThresholdStops
    /\ smoothing \in SmoothingStops
    /\ audio_name = "song"
    /\ model_exists \in BOOLEAN
    /\ model_loads \in IF model_exists THEN BOOLEAN ELSE {TRUE}
    /\ model = 1
    /\ results \in {NoValue, EarlierResults}
    /\ temp_files = 0
    /\ class_names = CLASS_NAMES
    /\ classes_is = "nothing"
    /\ authenticated = TRUE
    /\ login_success = FALSE
    /\ user = UserRow
    /\ audio_data = [bytes |-> audio, name |-> audio_name]
    /\ visualizations = main_app_figures(results, audio_data, {})
    /\ pdf = main_app_pdf(results, audio_data, aggregation, threshold,
                          smoothing, visualizations)

\* run_inference is called with any model, method name and window size, a
\* threshold above 1 and no audio_name.
InitCall ==
    /\ fn = "run_inference"
    /\ pc = "run_inference.call"
    /\ aggregation \in Methods
    /\ threshold = Rat(3, 2)
    /\ smoothing \in 0..MaxWindow
    /\ audio_name = ""
    /\ model_exists = TRUE
    /\ model \in 1..MaxModels
    /\ results = NoValue
    /\ ExtraIdle

Init ==
    /\ audio \in AudioFiles
    /\ InitApp \/ InitCall
    /\ audio_path = "temp.wav"
    /\ sr = TARGET_SR
    /\ window_sec = SEGMENT_DURATION
    /\ hop_sec = HOP_DURATION
    /\ window_samples = 0
    /\ hop_samples = 0
    /\ start = 0
    /\ segments = <<>>
    /\ times = <<>>
    /\ FramesIdle
    /\ seg_i = 0
    /\ pred_list = <<>>
    /\ model_calls = <<>>
    /\ predictions = NpArray(<<>>)
    /\ agg_predictions = NoValue
    /\ method = "mean"
    /\ aggregated = NoValue
    /\ tl_i = 0
    /\ timeline = <<>>
    /\ json_output = NoValue
    /\ result = NoResult
    /\ shown = <<>>
    /\ json_str = <<>>
    /\ parsed = NoValue
    /\ SmoothIdle

Next ==
    \/ main_app_run
    \/ run_inference_call
    \/ segment_audio_begin
    \/ segment_audio_iter
    \/ segment_audio_exhausted
    \/ run_inference_predict
    \/ predict_segments_begin
    \/ predict_segments_iter
    \/ predict_segments_return
    \/ run_inference_smooth
    \/ smooth_predictions_call
    \/ smooth_predictions_row
    \/ smooth_predictions_return
    \/ run_inference_aggregate
    \/ aggregate_predictions_call
    \/ run_inference_timeline_begin
    \/ run_inference_timeline_entry
    \/ run_inference_return
    \/ caller_pops_class
    \/ main_app_store
    \/ main_app_export
    \/ json_loads

Spec == Init /\ [][Next]_vars

(***************************************************************************)
(* Properties of predict_segments (checked under Spec).                    *)
(***************************************************************************)
PredictReturned == pc = "predict_segments.return"

\* The tensor of a segment: its spectrogram with the frames fixed.
FeatureTensor(segment) ==
    predict_segments_fix_shape(
        predict_segments_mel_spec_db(segment, HOP_LENGTH, N_MELS))

\* C7: predict_segments returns one row for each segment, row i being the
\* classifier's answer to the tensor of segment i; the classifier was called
\* once for each segment, in the order of the segments.
C7_OneRowPerSegment ==
    PredictReturned =>
        /\ Len(predictions.data) = Len(segments)
        /\ predictions.shape[1] = Len(segments)
        /\ Len(model_calls) = Len(segments)
        /\ \A i \in 1..Len(segments) :
              /\ model_calls[i] = FeatureTensor(segments[i])
              /\ predictions.data[i]
                   = ModelPredict(model, FeatureTensor(segments[i]))

\* Three or more segments were predicted, and not all to the same row.
C7_Witness ==
    /\ PredictReturned
    /\ Len(segments) >= 3
    /\ predictions.data[1] # predictions.data[2]
    /\ model_calls[1] # model_calls[3]

(***************************************************************************)
(* aggregate_predictions, called with any matrix and any method name.      *)
(***************************************************************************)
\* The probabilities of the matrices aggregated: 0.5 itself, values on both
\* sides of it.
VoteProbSeq == <<F32Zero, F32Half, F32Near085, F32One>>

AggInputs ==
    {NpArray(<<>>)} \cup
    UNION {
        {[shape |-> <<n, c>>,
          data |-> [i \in 1..n |->
                     [j \in 1..c |->
                        VoteProbSeq[((col[i] - 1 + (j - 1) * i)
                                       % Len(VoteProbSeq)) + 1]]]] :
            col \in [1..n -> 1..Len(VoteProbSeq)]} :
        n \in 0..MaxRows, c \in 1..MaxClasses}

InitAgg ==
    /\ fn = "aggregate_predictions"
    /\ pc = "aggregate_predictions.call"
    /\ agg_predictions \in AggInputs
    /\ method \in Methods
    /\ aggregated = NoValue
    /\ aggregation = "mean"
    /\ threshold = Rat(1, 4)
    /\ smoothing = 0
    /\ audio_name = ""
    /\ audio_path = ""
    /\ tl_i = 0
    /\ timeline = <<>>
    /\ json_output = NoValue
    /\ result = NoResult
    /\ model_exists = TRUE
    /\ results = NoValue
    /\ shown = <<>>
    /\ json_str = <<>>
    /\ parsed = NoValue
    /\ ExtraIdle
    /\ SegIdle
    /\ FramesIdle
    /\ PredIdle
    /\ predictions = NpArray(<<>>)
    /\ SmoothIdle

NextAgg == aggregate_predictions_call

SpecAgg == InitAgg /\ [][NextAgg]_vars

(***************************************************************************)
(* Properties of aggregate_predictions (checked under SpecAgg).            *)
(***************************************************************************)
AggReturned == pc = "aggregate_predictions.return"

\* The rows whose value for class j is above 0.5 in the order of float32.
RowsAbove(j) ==
    {i \in 1..agg_predictions.shape[1] :
        F32Ord(agg_predictions.data[i][j]) > F32Ord(F32Half)}

\* C11: 'voting' on a matrix of n >= 1 rows gives for each class k / n, k
\* being the number of rows whose value for the class is strictly greater
\* than 0.5.
C11_VotingIsFraction ==
    (/\ AggReturned
     /\ method = "voting"
     /\ IsMatrix(agg_predictions)
     /\ agg_predictions.shape[1] >= 1)
    => /\ aggregated.shape = <<agg_predictions.shape[2]>>
       /\ \A j \in 1..agg_predictions.shape[2] :
             /\ aggregated.data[j]
                  = Rat(Cardinality(RowsAbove(j)), agg_predictions.shape[1])
             /\ \E k \in 0..agg_predictions.shape[1] :
                   aggregated.data[j] = Rat(k, agg_predictions.shape[1])

\* A class with a row at exactly 0.5, a row above it and a row below it was
\* voted on.
C11_Witness ==
    /\ AggReturned
    /\ method = "voting"
    /\ IsMatrix(agg_predictions)
    /\ agg_predictions.shape[1] = 3
    /\ \E j \in 1..agg_predictions.shape[2] :
          /\ {agg_predictions.data[i][j] : i \in 1..3}
               = {F32Zero, F32Half, F32One}
          /\ aggregated.data[j] = Rat(1, 3)

\* The mean and the maximum of the matrix aggregated, whichever of the two
\* the call was for.
MeanOfInput ==
    IF method = "mean" THEN aggregated
    ELSE aggregate_predictions_mean(agg_predictions)

MaxOfInput ==
    IF method = "max" THEN aggregated
    ELSE aggregate_predictions_max(agg_predictions)

MeanMaxCase ==
    /\ AggReturned
    /\ method \in {"mean", "max"}
    /\ IsMatrix(agg_predictions)
    /\ agg_predictions.shape[1] >= 1

\* C12 as stated: for every matrix with at least one row and every class,
\* the 'max' aggregate is at least the 'mean' aggregate.
C12_MaxAtLeastMean ==
    MeanMaxCase =>
        \A j \in 1..agg_predictions.shape[2] :
            F32Leq(MeanOfInput.data[j], MaxOfInput.data[j])

\* C12, with the rounding of the float32 mean: for every matrix of n >= 1
\* rows and every class, the 'mean' aggregate is above the 'max' aggregate
\* by at most n float32 neighbours.
C12_MaxAtLeastRoundedMean ==
    MeanMaxCase =>
        \A j \in 1..agg_predictions.shape[2] :
            F32Ord(MeanOfInput.data[j])
              <= F32Ord(MaxOfInput.data[j]) + agg_predictions.shape[1]

\* The mean of rows that differ was taken, and the maximum is above it.
C12_Witness ==
    /\ MeanMaxCase
    /\ method = "mean"
    /\ agg_predictions.shape[1] >= 2
    /\ \E j \in 1..agg_predictions.shape[2] :
          /\ F32Less(MeanOfInput.data[j], MaxOfInput.data[j])
          /\ F32Less(F32Zero, MeanOfInput.data[j])

\* The mean of equal values came out above them.
MeanAboveEqualInputs ==
    /\ MeanMaxCase
    /\ \E j \in 1..agg_predictions.shape[2] :
          /\ \A i \in 1..agg_predictions.shape[1] :
                agg_predictions.data[i][j] = F32Near085
          /\ F32Less(F32Near085, MeanOfInput.data[j])

(***************************************************************************)
(* Properties of run_inference and of the application (checked under Spec) *)
(***************************************************************************)
RunReturned == result.returned

\* The places run_inference is at once aggregate_predictions has returned.
PastAggregation ==
    pc \in {"aggregate_predictions.return", "run_inference.timeline",
            "run_inference.return", "main_app.rerun"}

\* C13: with a method name that is none of 'mean', 'max' and 'voting',
\* aggregate_predictions raises and gives no aggregated vector, and
\* run_inference returns nothing.
C13_UnknownMethodRaises ==
    aggregation \notin {"mean", "max", "voting"}
        => /\ ~PastAggregation
           /\ aggregated = NoValue
           /\ ~RunReturned
           /\ pc = "aggregate_predictions.call" => method = aggregation

\* aggregate_predictions was called with an unknown name on the predictions
\* of several segments, and raised.
C13_Witness ==
    /\ pc = "error"
    /\ method = "bogus"
    /\ IsMatrix(agg_predictions)
    /\ agg_predictions.shape[1] >= 2
    /\ aggregated = NoValue

\* The result has every part: a smoothed matrix of one row for each segment
\* and one column for each class, as many start times, one finite aggregated
\* value for each class, one timeline entry for each segment and not none.
CompleteResult ==
    /\ result.smoothed.shape = <<Len(segments), Len(CLASS_NAMES)>>
    /\ Len(result.smoothed.data) = Len(segments)
    /\ Len(result.times) = Len(segments)
    /\ result.aggregated.shape = <<Len(CLASS_NAMES)>>
    /\ \A j \in 1..Len(result.aggregated.data) :
          result.aggregated.data[j] \notin {F32NaN, F64NaN}
    /\ Len(result.json_output.timeline) = Len(segments)
    /\ Len(result.json_output.timeline) >= 1

\* C14: for every waveform, the empty one included, and every choice of
\* parameters, run_inference raises or returns a complete result.
C14_CompleteResultOrError ==
    RunReturned => CompleteResult

\* The same for the waveforms that are not empty.
CompleteResultNonEmpty ==
    (RunReturned /\ ALen(audio) >= 1) => CompleteResult

\* The application got a result for an empty waveform.
EmptyWaveformResult ==
    /\ fn = "main_app"
    /\ pc = "main_app.rerun"
    /\ ALen(audio) = 0
    /\ results.aggregated = Scalar(F64NaN)
    /\ results.json.timeline = <<>>

\* C15: the timeline of the record returned has one entry for each segment,
\* in the order of the segments: entry i has the i-th start time as its
\* time_sec, and its intensity gives the j-th class code of CLASS_NAMES the
\* value of the smoothed matrix at (i, j), unchanged.
C15_TimelineRepackages ==
    RunReturned =>
        LET tl == result.json_output.timeline
        IN  /\ Len(tl) = Len(segments)
            /\ Len(tl) = Len(result.times)
            /\ \A i \in 1..Len(tl) :
                  /\ tl[i].time_sec.value = result.times[i]
                  /\ tl[i].time_sec.value = Rat(StartOf(i), sr)
                  /\ Len(tl[i].intensity) = Len(CLASS_NAMES)
                  /\ \A j \in 1..Len(CLASS_NAMES) :
                        /\ tl[i].intensity[j].key = CLASS_NAMES[j]
                        /\ tl[i].intensity[j].value.value
                             = result.smoothed.data[i][j]

\* A record of three or more entries was returned, for segments that were
\* smoothed and differ.
C15_Witness ==
    /\ RunReturned
    /\ Len(result.json_output.timeline) >= 3
    /\ smoothing >= 2
    /\ result.smoothed.data[1] # result.smoothed.data[2]
    /\ result.smoothed # predictions

\* intensity_to_json builds the record run_inference returns.
IntensityToJsonAgrees ==
    RunReturned =>
        intensity_to_json(run_inference_display_name, result.times,
                          result.smoothed, aggregation, smoothing, threshold)
          = result.json_output

\* The record has an aggregation of the three, an integer smoothing >= 1, a
\* threshold in [0, 1] and the class list of the configuration.
ConformsToSchema(rec) ==
    /\ rec.aggregation \in {"mean", "max", "voting"}
    /\ rec.smoothing \in Int
    /\ rec.smoothing >= 1
    /\ RatLeq(Rat(0, 1), rec.threshold)
    /\ RatLeq(rec.threshold, Rat(1, 1))
    /\ rec.classes
         = <<"cel", "cla", "flu", "gac", "gel", "org", "pia", "sax", "tru",
             "vio", "voi">>

\* C16 as stated: every record run_inference returns conforms to the schema.
C16_RecordConformsToSchema ==
    RunReturned => ConformsToSchema(result.json_output)

\* C16, for the calls of the application: every record run_inference returns
\* to main_app conforms to the schema.
C16_AppRecordConformsToSchema ==
    (RunReturned /\ fn = "main_app") => ConformsToSchema(result.json_output)

\* The application got a record for the low end of the smoothing slider and
\* the high end of the threshold slider.
C16_Witness ==
    /\ fn = "main_app"
    /\ pc = "main_app.rerun"
    /\ results.json.smoothing = 1
    /\ results.json.threshold = Rat(1, 1)
    /\ Len(results.json.timeline) >= 1

\* The application runs and finds no model file.
ModelMissing == fn = "main_app" /\ ~model_exists

\* C18: when the model file is missing the application reports an error and
\* stops: run_inference is not called, the classifier is not invoked, and
\* the results in the session state stay as they were.
C18_ModelMissingStopsRun ==
    /\ [](ModelMissing =>
            /\ pc \in {"main_app.run", "main_app.stop"}
            /\ model_calls = <<>>
            /\ ~RunReturned
            /\ pc = "main_app.stop"
                 => shown = <<"error: Model file not found">>)
    /\ [][ModelMissing => results' = results]_vars

\* The run stopped on the missing model file with the results of an earlier
\* run in the session state.
C18_Witness ==
    /\ ModelMissing
    /\ pc = "main_app.stop"
    /\ results = EarlierResults
    /\ shown # <<>>

\* The value a parsed dict has for a key.
Get(dict, key) ==
    (CHOOSE it \in {dict.items[i] : i \in 1..Len(dict.items)} :
        it.key = key).value

Exported == pc = "json.loads.return"

Silent(segment) == MValues(<<[v |-> segment, n |-> 1]>>) = {0}

\* The decibels of a segment, before the standardisation.
SegmentDecibels(segment) ==
    power_to_db(predict_segments_mel_spec(segment, HOP_LENGTH, N_MELS))

\* C21: for an all-zero segment the divisor of the standardisation, the
\* standard deviation plus the epsilon, is not zero although the deviation
\* is; the tensor handed to the classifier has the shape
\* (N_MELS, TARGET_FRAMES) and no entry is 0 / 0, the segment does not stop
\* the run, and generate_log_mel with EPS gives no 0 / 0 either and the
\* shape fix_mel_frames fixes.
C21_SilentSegmentFeatures ==
    /\ \A i \in 1..Len(model_calls) :
          Silent(segments[i]) =>
             /\ Divisor(SegmentDecibels(segments[i]),
                        predict_segments_eps).std_is_zero
             /\ ~DivisorIsZero(Divisor(SegmentDecibels(segments[i]),
                                       predict_segments_eps))
             /\ ~DivisorIsZero(Divisor(SegmentDecibels(segments[i]), EPS))
             /\ MRows(model_calls[i]) = N_MELS
             /\ MCols(model_calls[i]) = TARGET_FRAMES
             /\ MValues(model_calls[i]) = {0}
             /\ LET m == fix_mel_frames(generate_log_mel(segments[i], sr), sr)
                IN  /\ MRows(m) = N_MELS
                    /\ MCols(m) = fix_mel_frames_target(sr)
                    /\ MValues(m) = {0}
    /\ pc = "predict_segments.loop" => Len(model_calls) = seg_i
    /\ (pc = "error" /\ segments # <<>>) => Len(model_calls) = Len(segments)

\* The classifier was given the tensors of a silent segment and of one that
\* is not silent, whose entries differ.
C21_Witness ==
    /\ pc = "predict_segments.return"
    /\ \E i, j \in 1..Len(model_calls) :
          /\ Silent(segments[i])
          /\ MValues(model_calls[i]) = {0}
          /\ ~Silent(segments[j])
          /\ Cardinality(MValues(model_calls[j])) >= 3

(***************************************************************************)
(* The order of the stages of run_inference (checked under Spec).          *)
(***************************************************************************)
UnknownMethod == aggregation \notin {"mean", "max", "voting"}

\* C22: when run_inference is given an unknown aggregation strategy, the
\* audio is never segmented and the classifier is never invoked: the call
\* is rejected before either.
C22_UnknownMethodRejectedFirst ==
    (InRunInference /\ UnknownMethod) =>
        /\ segments = <<>>
        /\ model_calls = <<>>

\* What the code does instead: the error of an unknown strategy is raised
\* by aggregate_predictions, after every segment was classified and the
\* predictions were smoothed.
UnknownMethodRejectedLast ==
    (InRunInference /\ UnknownMethod /\ pc = "error" /\ segments # <<>>) =>
        /\ Len(model_calls) = Len(segments)
        /\ predictions.shape = <<Len(segments), Len(CLASS_NAMES)>>

\* The places of the stages of run_inference.
InSegmenting == pc \in {"segment_audio.call", "segment_audio.loop",
                        "segment_audio.return"}

InPredicting == pc \in {"predict_segments.call", "predict_segments.loop",
                        "predict_segments.return"}

InSmoothing == pc \in {"smooth_predictions.call", "smooth_predictions.loop",
                       "smooth_predictions.return"}

InAggregating == pc = "aggregate_predictions.call"

\* smooth_predictions(p, w) in one step: every row the mean of its window.
SmoothedOf(p, w) ==
    IF w <= 1 THEN p
    ELSE [shape |-> p.shape,
          data |-> [i \in 1..p.shape[1] |->
                      smooth_predictions_mean(
                          p.data,
                          smooth_predictions_start(i - 1, w),
                          smooth_predictions_end(i - 1, w, p.shape[1]))]]

\* C24: run_inference segments, then predicts, then smooths, then
\* aggregates, then assembles: no stage has acted before the one before it
\* is through; the aggregated vector is the aggregate of the smoothed
\* matrix; when run_inference returns, the matrix, the aggregated vector
\* and the intensities of the timeline are those of the smoothing of the
\* predictions.
C24_StagesInOrder ==
    InRunInference =>
        /\ InSegmenting =>
              /\ model_calls = <<>>
              /\ pred_list = <<>>
              /\ aggregated = NoValue
              /\ timeline = <<>>
        /\ InPredicting =>
              /\ Len(times) = Len(segments)
              /\ aggregated = NoValue
              /\ timeline = <<>>
        /\ InSmoothing =>
              /\ Len(model_calls) = Len(segments)
              /\ predictions = NpArray(pred_list)
              /\ aggregated = NoValue
              /\ timeline = <<>>
        /\ pc = "smooth_predictions.return" =>
              smoothed = SmoothedOf(predictions, smoothing)
        /\ InAggregating =>
              /\ agg_predictions = smoothed
              /\ timeline = <<>>
              /\ ~RunReturned
        /\ pc = "aggregate_predictions.return" =>
              /\ agg_predictions = smoothed
              /\ aggregated
                   = aggregate_predictions_value(smoothed, aggregation)
        /\ pc = "run_inference.return" =>
              LET sm == SmoothedOf(predictions, smoothing)
              IN  /\ result.smoothed = sm
                  /\ result.aggregated
                       = aggregate_predictions_value(sm, aggregation)
                  /\ \A i \in 1..Len(result.json_output.timeline) :
                        result.json_output.timeline[i].intensity
                          = [j \in 1..Len(CLASS_NAMES) |->
                               [key |-> CLASS_NAMES[j],
                                value |-> PyFloat(sm.data[i][j])]]

\* A run returned whose smoothing changed the predictions, and whose
\* aggregated vector is not the aggregate of the raw predictions.
C24_Witness ==
    /\ RunReturned
    /\ smoothing >= 2
    /\ result.smoothed # predictions
    /\ result.aggregated
         # aggregate_predictions_value(predictions, aggregation)
    /\ Len(result.json_output.timeline) >= 2

(***************************************************************************)
(* Even and odd windows of smooth_predictions (checked under SpecSmooth).  *)
(***************************************************************************)
\* The rows whose window of half-width w \div 2 lies inside the matrix.
InteriorRows(p, w) ==
    {i \in 0..(p.shape[1] - 1) :
        i - w \div 2 >= 0 /\ i + w \div 2 + 1 <= p.shape[1]}

\* C26: with an even window_size 2k (k >= 1) smooth_predictions returns
\* what it returns with 2k + 1, and with 2k + 1 what it returns with 2k;
\* the window of an interior row holds 2k + 1 rows in both cases.
C26_EvenWindowIsNextOdd ==
    (SmoothReturned /\ window_size >= 2) =>
        LET even == 2 * (window_size \div 2)
        IN  /\ smoothed = SmoothedOf(predictions, even)
            /\ smoothed = SmoothedOf(predictions, even + 1)
            /\ \A i \in InteriorRows(predictions, window_size) :
                  smooth_predictions_end(i, even, predictions.shape[1])
                    - smooth_predictions_start(i, even) = even + 1

\* smooth_predictions returned with the window_size 2 on three rows, the
\* middle row changed by the third.
C26_Witness ==
    /\ SmoothReturned
    /\ window_size = 2
    /\ predictions.shape[1] = 3
    /\ InteriorRows(predictions, window_size) = {1}
    /\ smoothed.data[2]
         # smooth_predictions_mean(predictions.data, 0, 2)

(***************************************************************************)
(* The argument of smooth_predictions (checked under SpecSmooth).          *)
(***************************************************************************)
InSmoothPredictions ==
    pc \in {"smooth_predictions.call", "smooth_predictions.loop",
            "smooth_predictions.return"}

\* C27: no step of smooth_predictions changes the matrix it was given; with
\* window_size > 1 the rows are written to a copy, and with window_size <= 1
\* (0 and negative sizes too) the matrix returned is the given object
\* itself, unchanged, and nothing is raised.
C27_InputNotModified ==
    /\ [][InSmoothPredictions => predictions' = predictions]_vars
    /\ [](pc = "smooth_predictions.loop" => smoothed_is = "a copy")
    /\ []((SmoothReturned /\ window_size > 1) => smoothed_is = "a copy")
    /\ [](window_size <= 1 =>
            /\ pc # "error"
            /\ SmoothReturned => /\ smoothed_is = "predictions"
                                 /\ smoothed = predictions)

\* smooth_predictions returned a copy whose rows it had changed.
C27_Witness ==
    /\ SmoothReturned
    /\ window_size > 1
    /\ smoothed_is = "a copy"
    /\ \E i \in 1..Len(smoothed.data) : smoothed.data[i] # predictions.data[i]

(***************************************************************************)
(* The temporary file of a run of the application (checked under Spec).    *)
(***************************************************************************)
\* The run of the script that the click on 'Analyze Track' started is over:
\* it stopped, it raised, or it stored its results and the script ran again.
AnalysisEnded ==
    /\ fn = "main_app"
    /\ pc \in {"main_app.stop", "error", "main_app.rerun", "main_app.export",
               "json.loads.return"}

\* C28: when the run of the application that wrote a temporary audio file
\* is over, the file is deleted, whichever way the run ended.
C28_TempFileDeleted == AnalysisEnded => temp_files = 0

\* What the code does: the file is deleted where the inference succeeded,
\* and left behind where the run stopped or raised.
TempFileDeletedOnSuccess ==
    /\ (AnalysisEnded /\ pc \notin {"main_app.stop", "error"})
          => temp_files = 0
    /\ (AnalysisEnded /\ pc \in {"main_app.stop", "error"})
          => temp_files = 1

(***************************************************************************)
(* What run_inference shares with its caller (checked under Spec).         *)
(***************************************************************************)
\* C25: nothing run_inference returns is an object of the module-level
\* configuration: the 'classes' of the record is not the list CLASS_NAMES
\* itself, and nothing a caller does with the record changes that list for
\* later runs.
C25_NothingReturnedIsShared ==
    /\ RunReturned => classes_is # "config.CLASS_NAMES"
    /\ class_names = CLASS_NAMES

\* What the code does: until a caller changes the record it was given, the
\* configuration is what config.py set; a change of the 'classes' of the
\* record is a change of the configuration.
ClassesAreTheConfiguration ==
    /\ pc # "caller.return" => class_names = CLASS_NAMES
    /\ RunReturned =>
          /\ classes_is = "config.CLASS_NAMES"
          /\ class_names = result.json_output.classes

(***************************************************************************)
(* A session of the application, from the login page on: logins, uploads,  *)
(* changes of the settings, analyses, logouts.                             *)
(***************************************************************************)
InitSession ==
    /\ fn = "main_app"
    /\ pc = "login_page"
    /\ audio = <<>>
    /\ sr = TARGET_SR
    /\ window_sec = SEGMENT_DURATION
    /\ hop_sec = HOP_DURATION
    /\ RunLocalsFresh
    /\ model = 1
    /\ aggregation = "mean"
    /\ threshold = Rat(1, 4)
    /\ smoothing = Min(3, MaxWindow)
    /\ audio_name = "audio"
    /\ audio_path = "temp.wav"
    /\ model_exists = TRUE
    /\ model_loads = TRUE
    /\ results = NoValue
    /\ shown = <<>>
    /\ json_str = <<>>
    /\ parsed = NoValue
    /\ temp_files = 0
    /\ class_names = CLASS_NAMES
    /\ authenticated = FALSE
    /\ login_success = FALSE
    /\ user = NoValue
    /\ audio_data = NoValue
    /\ visualizations = {}
    /\ pdf = NoValue

NextSession ==
    \/ login_page_submit
    \/ login_page_rerun
    \/ main_app_rerun
    \/ main_app_logout
    \/ main_app_upload
    \/ main_app_settings
    \/ main_app_analyze
    \/ main_app_run
    \/ run_inference_call
    \/ segment_audio_begin
    \/ segment_audio_iter
    \/ run_inference_predict
    \/ predict_segments_begin
    \/ predict_segments_iter
    \/ predict_segments_return
    \/ run_inference_smooth
    \/ smooth_predictions_call
    \/ smooth_predictions_row
    \/ smooth_predictions_return
    \/ run_inference_aggregate
    \/ aggregate_predictions_call
    \/ run_inference_timeline_begin
    \/ run_inference_timeline_entry
    \/ run_inference_return
    \/ main_app_store

SpecSession == InitSession /\ [][NextSession]_vars

\* C23: a run of run_inference on the audio, with the aggregation and with
\* the smoothing of the run whose results are stored, returns the smoothed
\* matrix, the start times, the aggregated vector and the timeline of that
\* run whatever the thresholds of the two runs are, and a record that
\* differs from the stored one in 'threshold' at most.
C23_ThresholdHasNoEffect ==
    (/\ pc = "run_inference.return"
     /\ results # NoValue
     /\ results.json.audio_file = audio_name
     /\ results.json.aggregation = aggregation
     /\ results.json.smoothing = smoothing)
        => /\ result.smoothed = results.smoothed
           /\ result.times = results.times
           /\ result.aggregated = results.aggregated
           /\ result.json_output.timeline = results.json.timeline
           /\ result.json_output.threshold = threshold
           /\ result.json_output
                = [results.json EXCEPT !.threshold = threshold]

\* A second run returned that differs from the stored one in the threshold
\* only, under 'voting', with a class that a part of the segments voted
\* for.
C23_Witness ==
    /\ pc = "run_inference.return"
    /\ results # NoValue
    /\ results.json.audio_file = audio_name
    /\ results.json.aggregation = aggregation
    /\ results.json.smoothing = smoothing
    /\ results.json.threshold # threshold
    /\ aggregation = "voting"
    /\ \E j \in 1..Len(CLASS_NAMES) :
          /\ RatLess(Rat(0, 1), result.aggregated.data[j])
          /\ RatLess(result.aggregated.data[j], Rat(1, 1))

\* The page of main_app is shown with a PDF report of the stored results.
PdfShown ==
    /\ pc = "main_app.rerun"
    /\ authenticated
    /\ pdf # NoValue
    /\ results # NoValue

\* C29: the aggregation method, the threshold and the smoothing window the
\* PDF report is written with are those of the stored JSON record, and the
\* instruments it lists as detected are those at or above the recorded
\* threshold.
C29_PdfSettingsAreRecorded ==
    PdfShown =>
        /\ pdf.aggregation = results.json.aggregation
        /\ pdf.threshold = results.json.threshold
        /\ pdf.smoothing = results.json.smoothing
        /\ pdf.confidence_dict
             = main_app_confidence_dict(results, results.json.threshold)

\* What the code does: the report is written with the values the widgets
\* have when the script runs, and lists the instruments at or above the
\* threshold of the slider.
PdfSettingsAreWidgets ==
    PdfShown =>
        /\ pdf.aggregation = aggregation
        /\ pdf.threshold = threshold
        /\ pdf.smoothing = smoothing
        /\ pdf.confidence_dict = main_app_confidence_dict(results, threshold)

\* C30: an authenticated session has the row of a verified user as its
\* user; authenticated becomes true only in a run of the script that finds
\* the flag login_success set, and clears it; the flag is set only with
\* the row verify_user returned for the submitted credentials; and a logout
\* clears authenticated together with user, results, audio_data and
\* visualizations.
C30_AuthenticatedHasUser ==
    /\ [](authenticated => (user = UserRow /\ ~login_success))
    /\ [](login_success => user = UserRow)
    /\ [][(~authenticated /\ authenticated') =>
             /\ login_success
             /\ ~login_success'
             /\ user' = user]_vars
    /\ [][(~login_success /\ login_success') =>
             /\ pc = "login_page"
             /\ user' = verify_user("valid").user_data
             /\ ~authenticated']_vars
    /\ [][(authenticated /\ ~authenticated') =>
             /\ user' = NoValue
             /\ results' = NoValue
             /\ audio_data' = NoValue
             /\ visualizations' = {}]_vars

\* A user logs in again after a session with an analysis that ended with a
\* logout: the flag is set, the session not yet authenticated.
C30_Witness ==
    /\ login_success
    /\ ~authenticated
    /\ user = UserRow
    /\ results = NoValue
    /\ visualizations = {}
    /\ model_calls # <<>>

====
